---- MODULE Spec2Model ----
(***************************************************************************)
(* M1125 deterministic pause/resume controller of the CR6 community        *)
(* firmware: the pause/park handler, the resume request and its poll, the  *)
(* heater idle watchdog with its grace window, the saved-command filter    *)
(* and the G-code ring buffer the controller snapshots and refills.        *)
(*                                                                         *)
(* Time is millis() in milliseconds; the 32-bit wrap of millis() (49 days) *)
(* lies outside every bound used here and is not modelled.                 *)
(***************************************************************************)
EXTENDS Integers, Sequences, FiniteSets, TLC

(***************************************************************************)
(* Program constants                                                       *)
(***************************************************************************)
PAUSE_PARK_NOZZLE_TIMEOUT == 300
M1125_TIMEOUT_GRACE_SECONDS == 30
BUFSIZE == 8
TEMP_WINDOW == 1
TEMP_BED_WINDOW == 1

SEC_TO_MS(s) == s * 1000

(***************************************************************************)
(* Bounds of the model                                                     *)
(***************************************************************************)
\* the clock advances in steps of TickMs, MaxTicks times at most
TickMs == 150000
MaxTicks == 3
\* accepted pauses per behaviour
MaxEpisodes == 2
\* the ring buffer of the queue specification starts with every sequence of
\* at most MaxQueued commands (and with two full buffers)
MaxQueued == 3
MaxRingOps == 10
MaxMediaChanges == 4
MaxMediaPolls == 3

(***************************************************************************)
(* Command text: a C string is a sequence of one-character strings; the    *)
(* null pointer is a value of its own.                                     *)
(***************************************************************************)
NullPtr == <<"<nullptr>">>

LowerChars == <<"a","b","c","d","e","f","g","h","i","j","k","l","m",
                "n","o","p","q","r","s","t","u","v","w","x","y","z">>
UpperChars == <<"A","B","C","D","E","F","G","H","I","J","K","L","M",
                "N","O","P","Q","R","S","T","U","V","W","X","Y","Z">>

\* (c >= 'a' && c <= 'z') ? (c - 'a' + 'A') : c
m1125_upper(c) ==
  IF \E i \in 1..26 : LowerChars[i] = c
    THEN UpperChars[CHOOSE i \in 1..26 : LowerChars[i] = c]
    ELSE c

\* the terminating zero byte of a C string
NUL == "<nul>"

\* *p of a C string: the character at 1-based position i, NUL at the end
CharAt(s, i) == IF i <= Len(s) THEN s[i] ELSE NUL

\* while (*cmd == ' ') ++cmd;  -> index of the first non-space character
RECURSIVE SkipSpaces(_, _)
SkipSpaces(s, i) == IF CharAt(s, i) = " " THEN SkipSpaces(s, i + 1) ELSE i

\* while (*t) { if (!*cmd || upper(*cmd) != *t) return false; ++cmd; ++t; }
\* yields 0 on a mismatch, else the index of the character after the match
RECURSIVE MatchFrom(_, _, _, _)
MatchFrom(s, i, target, t) ==
  IF t > Len(target) THEN i
  ELSE IF CharAt(s, i) = NUL \/ m1125_upper(CharAt(s, i)) # target[t] THEN 0
  ELSE MatchFrom(s, i + 1, target, t + 1)

\* variant: any character may follow the command word
TailOk_any(tail) == TRUE

\* tail == '\0' || tail == ' ' || tail == '\t' || tail == ';'
TailOk(tail) == tail = NUL \/ tail = " " \/ tail = "\t" \/ tail = ";"

m1125_command_matches(cmd, target) ==
  IF cmd = NullPtr \/ Len(cmd) = 0 THEN FALSE
  ELSE LET e == MatchFrom(cmd, SkipSpaces(cmd, 1), target, 1)
       IN  e # 0 /\ TailOk(CharAt(cmd, e))

T_M600  == <<"M","6","0","0">>
T_M1125 == <<"M","1","1","2","5">>

m1125_should_skip_saved_command(cmd) ==
  IF cmd = NullPtr \/ Len(cmd) = 0 THEN TRUE
  ELSE m1125_command_matches(cmd, T_M600) \/ m1125_command_matches(cmd, T_M1125)


(***************************************************************************)
(* State.  The controller's file-scope statics keep their names; the       *)
(* collaborators (clock, thermal manager, card reader, G-code queue,       *)
(* motion, job timer, display) are reduced to the fields the controller    *)
(* reads and writes.  The obs_* / ev_* variables are observers: they       *)
(* record what a handler did and are never read by the handlers.           *)
(***************************************************************************)
VARIABLES
  now,                                   \* millis()
  m1125_saved_position,
  m1125_have_saved_position,
  m1125_pause_active,
  m1125_heaters_disabled_by_timeout,
  m1125_timeout_pending,
  m1125_timeout_deadline_ms,
  m1125_timeout_old_remaining_at_continue,
  m1125_continue_pressed,
  m1125_resume_pending,
  m1125_resume_do_sd,
  m1125_resume_do_host,
  m1125_resume_feedrate_mm_s,
  m1125_suppress_auto_job_timer,
  m1125_saved_commands,
  m1125_saved_cmd_count,
  m1125_local_hotend_idle,
  m1125_local_bed_idle,
  m1125_saved_target_hotend,
  m1125_saved_target_bed,
  print_source,                          \* PrintSource::source_instance()
  suppress_popup_pause_response,         \* DGUSScreenHandler suppression flag
  wait_for_user,
  target_hotend, target_bed,             \* thermalManager targets
  card,                                  \* [fileOpen, sdprinting, sdpos]
  ring_buffer,                           \* queue.ring_buffer
  current_position,
  print_job_timer,
  host_serial_connected,                 \* MYSERIALn.connected()
  injected_pending,                      \* queue.inject("M1125 P") not yet run
  filter_cmd,                            \* a command handed to the saved-command filter
  filter_skip,                           \* the filter's answer: "skip" or "keep"
  rb_log,                                \* observer: the ring buffer operations
  mock_card,                             \* media: the card reader
  mock_ui,                               \* media: what the UI was told
  prev_stat,                             \* media: the reading observed before
  media_obs,                             \* observer: polls since the reading changed
  hostui_last_notification,              \* the text of the last host notification
  hostui_last_notification_ms,           \* millis() when it was stored
  m117_obs,                              \* observer: the last call on the cache
  ev,                                    \* observer: what that operation did
  obs                                    \* observer: counters of the episode

vars == << now, m1125_saved_position, m1125_have_saved_position,
           m1125_pause_active, m1125_heaters_disabled_by_timeout,
           m1125_timeout_pending, m1125_timeout_deadline_ms,
           m1125_timeout_old_remaining_at_continue, m1125_continue_pressed,
           m1125_resume_pending, m1125_resume_do_sd, m1125_resume_do_host,
           m1125_resume_feedrate_mm_s, m1125_suppress_auto_job_timer,
           m1125_saved_commands, m1125_saved_cmd_count,
           m1125_local_hotend_idle, m1125_local_bed_idle,
           m1125_saved_target_hotend, m1125_saved_target_bed,
           print_source, suppress_popup_pause_response, wait_for_user,
           target_hotend, target_bed,
           card, ring_buffer, current_position, print_job_timer,
           host_serial_connected, injected_pending,
           filter_cmd, filter_skip, rb_log,
           mock_card, mock_ui, prev_stat, media_obs,
           hostui_last_notification, hostui_last_notification_ms, m117_obs,
           ev, obs >>

\* the media state machine's variables
mediaVars == << mock_card, mock_ui, prev_stat, media_obs >>

\* the host notification cache's variables
notifyVars ==
  << hostui_last_notification, hostui_last_notification_ms, m117_obs >>

\* The whole program state as one record, so that a handler that calls
\* another handler is the composition of two state transformers.
Cur ==
  [ now |-> now,
    saved_position |-> m1125_saved_position,
    have_saved_position |-> m1125_have_saved_position,
    pause_active |-> m1125_pause_active,
    heaters_disabled_by_timeout |-> m1125_heaters_disabled_by_timeout,
    timeout_pending |-> m1125_timeout_pending,
    timeout_deadline_ms |-> m1125_timeout_deadline_ms,
    timeout_old_remaining_at_continue |-> m1125_timeout_old_remaining_at_continue,
    continue_pressed |-> m1125_continue_pressed,
    resume_pending |-> m1125_resume_pending,
    resume_do_sd |-> m1125_resume_do_sd,
    resume_do_host |-> m1125_resume_do_host,
    resume_feedrate_mm_s |-> m1125_resume_feedrate_mm_s,
    suppress_auto_job_timer |-> m1125_suppress_auto_job_timer,
    saved_commands |-> m1125_saved_commands,
    saved_cmd_count |-> m1125_saved_cmd_count,
    local_hotend_idle |-> m1125_local_hotend_idle,
    local_bed_idle |-> m1125_local_bed_idle,
    saved_target_hotend |-> m1125_saved_target_hotend,
    saved_target_bed |-> m1125_saved_target_bed,
    print_source |-> print_source,
    suppress_popup |-> suppress_popup_pause_response,
    wait_for_user |-> wait_for_user,
    target_hotend |-> target_hotend, target_bed |-> target_bed,
    card |-> card,
    ring_buffer |-> ring_buffer,
    current_position |-> current_position,
    print_job_timer |-> print_job_timer,
    host_serial_connected |-> host_serial_connected,
    injected_pending |-> injected_pending,
    ev |-> ev,
    obs |-> obs ]

\* The next program state is the record s.
CommitProgram(s) ==
  /\ now' = s.now
  /\ m1125_saved_position' = s.saved_position
  /\ m1125_have_saved_position' = s.have_saved_position
  /\ m1125_pause_active' = s.pause_active
  /\ m1125_heaters_disabled_by_timeout' = s.heaters_disabled_by_timeout
  /\ m1125_timeout_pending' = s.timeout_pending
  /\ m1125_timeout_deadline_ms' = s.timeout_deadline_ms
  /\ m1125_timeout_old_remaining_at_continue' = s.timeout_old_remaining_at_continue
  /\ m1125_continue_pressed' = s.continue_pressed
  /\ m1125_resume_pending' = s.resume_pending
  /\ m1125_resume_do_sd' = s.resume_do_sd
  /\ m1125_resume_do_host' = s.resume_do_host
  /\ m1125_resume_feedrate_mm_s' = s.resume_feedrate_mm_s
  /\ m1125_suppress_auto_job_timer' = s.suppress_auto_job_timer
  /\ m1125_saved_commands' = s.saved_commands
  /\ m1125_saved_cmd_count' = s.saved_cmd_count
  /\ m1125_local_hotend_idle' = s.local_hotend_idle
  /\ m1125_local_bed_idle' = s.local_bed_idle
  /\ m1125_saved_target_hotend' = s.saved_target_hotend
  /\ m1125_saved_target_bed' = s.saved_target_bed
  /\ print_source' = s.print_source
  /\ suppress_popup_pause_response' = s.suppress_popup
  /\ wait_for_user' = s.wait_for_user
  /\ target_hotend' = s.target_hotend
  /\ target_bed' = s.target_bed
  /\ card' = s.card
  /\ ring_buffer' = s.ring_buffer
  /\ current_position' = s.current_position
  /\ print_job_timer' = s.print_job_timer
  /\ host_serial_connected' = s.host_serial_connected
  /\ injected_pending' = s.injected_pending
  /\ ev' = s.ev
  /\ obs' = s.obs

\* The next state is the record s.
Commit(s) ==
  /\ CommitProgram(s)
  /\ UNCHANGED << filter_cmd, filter_skip, rb_log, mediaVars, notifyVars >>

(***************************************************************************)
(* G-code ring buffer (GCodeQueue::RingBuffer)                             *)
(***************************************************************************)
Slots == 0 .. (BUFSIZE - 1)
EmptyLine == [buffer |-> <<>>, skip_ok |-> FALSE]

\* uint8_t arithmetic of length
U8(n) == n % 256

RB_clear_lengthOnly(rb) == [rb EXCEPT !.length = 0]

RB_clear(rb) == [rb EXCEPT !.length = 0, !.index_r = 0, !.index_w = 0]

\* if (++p >= BUFSIZE) p = 0;
NextPos(p) == IF p + 1 >= BUFSIZE THEN 0 ELSE p + 1

RB_advance_w(rb) ==
  [rb EXCEPT !.index_w = NextPos(rb.index_w), !.length = U8(rb.length + 1)]

RB_advance_r_unguarded(rb) ==
  [rb EXCEPT !.index_r = NextPos(rb.index_r), !.length = U8(rb.length + 255)]

RB_advance_r_keepsIndex(rb) ==
  IF rb.length # 0 THEN [rb EXCEPT !.length = U8(rb.length + 255)] ELSE rb

RB_advance_r(rb) ==
  IF rb.length # 0
    THEN [rb EXCEPT !.index_r = NextPos(rb.index_r), !.length = U8(rb.length + 255)]
    ELSE rb

RB_commit_command(rb, skip_ok) ==
  RB_advance_w([rb EXCEPT !.commands[rb.index_w].skip_ok = skip_ok])

RB_enqueue_ok_noFull(rb, cmd) == ~(CharAt(cmd, 1) = ";")

\* if (*cmd == ';' || length >= BUFSIZE) return false;
RB_enqueue_ok(rb, cmd) == ~(CharAt(cmd, 1) = ";" \/ rb.length >= BUFSIZE)

RB_enqueue(rb, cmd, skip_ok) ==
  IF RB_enqueue_ok(rb, cmd)
    THEN RB_commit_command([rb EXCEPT !.commands[rb.index_w].buffer = cmd], skip_ok)
    ELSE rb

RB_peek_next_command(rb) == rb.commands[rb.index_r]

\* The queued commands in logical (FIFO) order: length entries from index_r.
RECURSIVE RB_Contents_from(_, _, _)
RB_Contents_from(rb, pos, n) ==
  IF n = 0 THEN <<>>
  ELSE <<rb.commands[pos]>> \o RB_Contents_from(rb, NextPos(pos), n - 1)

(***************************************************************************)
(* LocalIdleTimer                                                          *)
(***************************************************************************)
\* ELAPSED(now, when): the signed difference is not negative
ELAPSED(t, when) == t - when >= 0

Timer_start(t, ms) == [deadline_ms |-> t + ms, active |-> TRUE, timed_out |-> FALSE]

Timer_reset == [deadline_ms |-> 0, active |-> FALSE, timed_out |-> FALSE]

Timer_update(tm, t) ==
  IF ~tm.active \/ tm.timed_out THEN tm
  ELSE IF ELAPSED(t, tm.deadline_ms)
         THEN [tm EXCEPT !.timed_out = TRUE, !.active = FALSE]
         ELSE tm


(***************************************************************************)
(* Collaborators, reduced to what the controller uses                      *)
(***************************************************************************)
\* positions are in tenths of a millimetre
NOZZLE_PARK_POINT == [x |-> 100, y |-> 2250, z |-> 200]
WIPE_POINT == [x |-> 50, y |-> 50]

Max(a, b) == IF a >= b THEN a ELSE b
ABS(a) == IF a < 0 THEN 0 - a ELSE a

\* Nozzle::park(0, park): raise Z to at least park.z, then go to park XY
Nozzle_park(pos) ==
  [pos EXCEPT !.x = NOZZLE_PARK_POINT.x, !.y = NOZZLE_PARK_POINT.y,
              !.z = Max(pos.z, NOZZLE_PARK_POINT.z)]

\* Stopwatch::pause() and Stopwatch::start()
Stopwatch_pause(t) == IF t = "RUNNING" THEN "PAUSED" ELSE t
Stopwatch_start(t) == "RUNNING"

\* card.isFileOpen() && card.isStillPrinting()
Card_sd_printing(c) == c.fileOpen /\ c.sdprinting

\* MMM_TO_MMS(3000.0f), in mm/s
DefaultResumeFeedrate == 50
MMM_TO_MMS(f) == f \div 60

\* what the last operation did; gate_* and read_* are the saved targets and
\* the temperature readings a finalizing poll compared
NoEvent ==
  [ op |-> "none", rejected |-> FALSE, prompt |-> FALSE, disabled |-> FALSE,
    finalized |-> FALSE, moved |-> FALSE, reinserted |-> 0,
    gate_hotend |-> 0, gate_bed |-> 0, read_hotend |-> 0, read_bed |-> 0,
    ret |-> FALSE,
    hook |-> "none", host_pause |-> FALSE, action_lines |-> 0,
    injected |-> FALSE, remaining |-> -1 ]

(***************************************************************************)
(* HostUI (host_actions.cpp)                                               *)
(***************************************************************************)
PrintSource_printingFromSDCard_never(s) == FALSE

PrintSource_printingFromSDCard(s) == s.print_source = "SD"

\* if (PrintSource::printingFromSDCard()) return; else one "//action:" line
HostUI_action(s) ==
  IF PrintSource_printingFromSDCard(s) THEN s
  ELSE [s EXCEPT !.ev.action_lines = @ + 1]

\* if (host_serial_connected)
HostMarksSource(s) == s.host_serial_connected

\* if (!PrintSource::printingFromSDCard()) PrintSource::set_printing_from_host();
HostUI_mark_source(s) ==
  IF ~PrintSource_printingFromSDCard(s) THEN [s EXCEPT !.print_source = "HOST"]
  ELSE s

HostUI_pause(s) ==
  LET s0 == [s EXCEPT !.ev.host_pause = TRUE] IN
  IF PrintSource_printingFromSDCard(s0) THEN s0
  ELSE LET s1 == HostUI_action(s0) IN
       IF HostMarksSource(s1)
         THEN [HostUI_mark_source(s1) EXCEPT !.injected_pending = TRUE,
                                             !.ev.injected = TRUE]
         ELSE s1

HostUI_resume(s) ==
  IF PrintSource_printingFromSDCard(s) THEN s
  ELSE LET s1 == HostUI_action(s) IN
       IF HostMarksSource(s1) THEN HostUI_mark_source(s1) ELSE s1

HostUI_start(s) ==
  IF PrintSource_printingFromSDCard(s) THEN s
  ELSE LET s1 == HostUI_action(s) IN
       IF HostMarksSource(s1) THEN HostUI_mark_source(s1) ELSE s1

(***************************************************************************)
(* m1125_poll_resume                                                       *)
(***************************************************************************)
\* if (ABS(whole - int(tgt)) > (TEMP_WINDOW)) -> still heating
HotendOutside(tgt, whole) == tgt > 0 /\ ABS(whole - tgt) > TEMP_WINDOW
BedOutside(tgt, whole) == tgt > 0 /\ ABS(whole - tgt) > TEMP_BED_WINDOW

\* variant: the gate looks at the hotend only
StillHeating_hotendOnly(s, rd) ==
  HotendOutside(s.saved_target_hotend, rd.hotend)

\* rd is what thermalManager.wholeDegHotend(e) / wholeDegBed() return now
StillHeating(s, rd) ==
  \/ HotendOutside(s.saved_target_hotend, rd.hotend)
  \/ BedOutside(s.saved_target_bed, rd.bed)

\* the loop that writes the preserved commands back at the write index
RECURSIVE Reinsert(_, _, _, _)
Reinsert(rb, saved, i, n) ==
  IF i >= n THEN rb
  ELSE Reinsert(RB_advance_w([rb EXCEPT !.commands[rb.index_w] = saved[i]]),
                saved, i + 1, n)

\* variant: E is set back to the saved value for every resume
RestorePosition_alwaysE(s) ==
  IF s.have_saved_position
    THEN [s EXCEPT
           !.current_position = s.saved_position,
           !.have_saved_position = FALSE,
           !.ev.moved = TRUE,
           !.obs.moves = s.obs.moves + 1]
    ELSE s

\* the position part of the finalize sequence
RestorePosition(s) ==
  IF s.have_saved_position
    THEN [s EXCEPT
           !.current_position =
              [ x |-> s.saved_position.x, y |-> s.saved_position.y,
                z |-> s.saved_position.z,
                e |-> IF s.resume_do_sd THEN s.saved_position.e
                                        ELSE s.current_position.e ],
           !.have_saved_position = FALSE,
           !.ev.moved = TRUE,
           !.obs.moves = s.obs.moves + 1]
    ELSE s

\* if (m1125_resume_do_sd) { if (!card.isStillPrinting()) { ... } }
ResumeSd(s) ==
  IF s.resume_do_sd /\ ~s.card.sdprinting
    THEN [s EXCEPT
           !.ring_buffer = IF s.saved_cmd_count # 0
                             THEN Reinsert(s.ring_buffer, s.saved_commands, 0,
                                           s.saved_cmd_count)
                             ELSE s.ring_buffer,
           !.ev.reinserted = s.saved_cmd_count,
           !.saved_cmd_count = 0,
           !.print_source = "SD",
           !.card.sdprinting = TRUE,
           !.print_job_timer = Stopwatch_start(s.print_job_timer)]
    ELSE s

\* if (m1125_resume_do_host) { set_printing_from_host(); ui.resume_print(); }
ResumeHost(s) ==
  IF s.resume_do_host
    THEN [s EXCEPT !.print_source = "HOST",
                   !.print_job_timer = Stopwatch_start(s.print_job_timer)]
    ELSE s

\* variant: the finalize sequence without M1125_ClearAutoJobTimerSuppress()
Finalize_keepsSuppression(s) ==
  LET s1 == RestorePosition([s EXCEPT !.resume_pending = FALSE])
      s2 == [s1 EXCEPT !.saved_target_hotend = 0,
                       !.saved_target_bed = 0]
      s3 == ResumeHost(ResumeSd(s2))
  IN  [s3 EXCEPT !.print_job_timer = Stopwatch_start(s3.print_job_timer),
                 !.suppress_popup = FALSE,
                 !.pause_active = FALSE,
                 !.heaters_disabled_by_timeout = FALSE,
                 !.ev.finalized = TRUE,
                 !.obs.finalizes = s.obs.finalizes + 1]

Finalize(s) ==
  LET s1 == RestorePosition([s EXCEPT !.resume_pending = FALSE])
      s2 == [s1 EXCEPT !.suppress_auto_job_timer = FALSE,
                       !.saved_target_hotend = 0,
                       !.saved_target_bed = 0]
      s3 == ResumeHost(ResumeSd(s2))
  IN  [s3 EXCEPT !.print_job_timer = Stopwatch_start(s3.print_job_timer),
                 !.suppress_popup = FALSE,
                 !.pause_active = FALSE,
                 !.heaters_disabled_by_timeout = FALSE,
                 !.ev.finalized = TRUE,
                 !.obs.finalizes = s.obs.finalizes + 1]

m1125_poll_resume(s, rd) ==
  IF ~s.resume_pending THEN s
  ELSE IF StillHeating(s, rd) THEN s
  ELSE Finalize([s EXCEPT !.ev.gate_hotend = s.saved_target_hotend,
                          !.ev.gate_bed = s.saved_target_bed,
                          !.ev.read_hotend = rd.hotend,
                          !.ev.read_bed = rd.bed])

(***************************************************************************)
(* M1125_CheckAndHandleHeaterTimeout                                       *)
(***************************************************************************)
\* m1125_post_timeout_popup
m1125_post_timeout_popup(s) ==
  [s EXCEPT !.suppress_popup = TRUE, !.wait_for_user = TRUE,
            !.ev.prompt = TRUE,
            !.obs.prompts = s.obs.prompts + 1,
            !.obs.prompt_time = s.now]

\* thermalManager.disable_all_heaters()
disable_all_heaters(s) ==
  [s EXCEPT !.target_hotend = 0, !.target_bed = 0,
            !.ev.disabled = TRUE, !.obs.disables = s.obs.disables + 1]

\* variant: the prompt opens no grace window
PromptBranch_noGrace(s) ==
  m1125_post_timeout_popup(
    [s EXCEPT !.timeout_pending = TRUE,
              !.timeout_deadline_ms = s.now,
              !.continue_pressed = FALSE,
              !.timeout_old_remaining_at_continue = 0])

\* first branch: a heater-idle timeout just occurred and no popup is shown yet
PromptBranch(s) ==
  m1125_post_timeout_popup(
    [s EXCEPT !.timeout_pending = TRUE,
              !.timeout_deadline_ms = s.now + (M1125_TIMEOUT_GRACE_SECONDS * 1000),
              !.continue_pressed = FALSE,
              !.timeout_old_remaining_at_continue = 0])

\* second branch: pending and deadline passed
DisableBranch(s, rd) ==
  LET s1 == [s EXCEPT !.saved_target_hotend = s.target_hotend,
                      !.saved_target_bed = s.target_bed]
      s2 == disable_all_heaters(s1)
      s3 == [s2 EXCEPT !.heaters_disabled_by_timeout = TRUE,
                       !.timeout_pending = FALSE,
                       !.continue_pressed = FALSE]
  IN  [m1125_poll_resume(s3, rd) EXCEPT !.ev.ret = TRUE]

M1125_CheckAndHandleHeaterTimeout(s, rd) ==
  IF ~s.pause_active THEN s
  ELSE
    LET u == [s EXCEPT
                !.local_hotend_idle = Timer_update(s.local_hotend_idle, s.now),
                !.local_bed_idle = Timer_update(s.local_bed_idle, s.now)]
        any_timed_out == u.local_hotend_idle.timed_out \/ u.local_bed_idle.timed_out
    IN  IF any_timed_out /\ ~u.heaters_disabled_by_timeout /\ ~u.timeout_pending
          THEN PromptBranch(u)
        ELSE IF /\ u.timeout_pending
                /\ ~u.heaters_disabled_by_timeout
                /\ ELAPSED(u.now, u.timeout_deadline_ms)
          THEN DisableBranch(u, rd)
        ELSE m1125_poll_resume(u, rd)


(***************************************************************************)
(* GcodeSuite::M1125                                                       *)
(***************************************************************************)
\* the loop that copies the committed commands out of the ring buffer,
\* dropping the ones the filter names; yields [cmds, count]
RECURSIVE CopyQueued(_, _, _, _, _, _)
CopyQueued(rb, start, i, len, cmds, count) ==
  IF i >= len THEN [cmds |-> cmds, count |-> count]
  ELSE LET pos == IF start + i >= BUFSIZE THEN start + i - BUFSIZE ELSE start + i
           src == rb.commands[pos]
       IN  IF m1125_should_skip_saved_command(src.buffer)
             THEN CopyQueued(rb, start, i + 1, len, cmds, count)
           ELSE IF count < BUFSIZE
             THEN CopyQueued(rb, start, i + 1, len,
                             [cmds EXCEPT ![count] = src], count + 1)
           ELSE CopyQueued(rb, start, i + 1, len, cmds, count)

\* variant: the queue is cleared before it is copied
PauseSdQueue_clearsFirst(s) ==
  LET saved_sd_index == s.card.sdpos
      rb == RB_clear(s.ring_buffer)
      c == CopyQueued(rb, rb.index_r, 0, rb.length, s.saved_commands, 0)
  IN  [s EXCEPT !.card.sdprinting = FALSE,
                !.saved_commands = c.cmds,
                !.saved_cmd_count = c.count,
                !.ring_buffer = rb,
                !.card.sdpos = saved_sd_index]

\* if (sd_printing) { save index; pauseSDPrint; copy; clear; setIndex }
PauseSdQueue(s) ==
  LET saved_sd_index == s.card.sdpos
      c == CopyQueued(s.ring_buffer, s.ring_buffer.index_r, 0,
                      s.ring_buffer.length, s.saved_commands, 0)
  IN  [s EXCEPT !.card.sdprinting = FALSE,
                !.saved_commands = c.cmds,
                !.saved_cmd_count = c.count,
                !.ring_buffer = RB_clear(s.ring_buffer),
                !.card.sdpos = saved_sd_index]

\* retract + Z lift, wipe move, park
PauseMoves(pos) ==
  LET retract == [pos EXCEPT !.z = pos.z + 2, !.e = pos.e - 20]
      wipe == [retract EXCEPT !.x = WIPE_POINT.x, !.y = WIPE_POINT.y]
  IN  Nozzle_park(wipe)

\* if (sd_printing) { ... if (!sd_printing) hostui.pause(); }
PauseHostNotify(s, sd_printing) ==
  IF sd_printing
    THEN (IF ~sd_printing THEN HostUI_pause(s) ELSE s)
    ELSE s

\* variant: the pause path without its guard
PauseRejected_never(s) == FALSE

\* the "already active" guard of the pause path
PauseRejected(s) == s.pause_active

M1125_Pause(s) ==
  LET sd_printing == Card_sd_printing(s.card) IN
  IF PauseRejected(s) THEN [s EXCEPT !.ev.rejected = TRUE, !.ev.op = "pause"]
  ELSE
    LET s1 == [s EXCEPT !.print_source = IF sd_printing THEN "SD" ELSE "HOST",
                        !.suppress_popup = TRUE,
                        !.suppress_auto_job_timer = TRUE]
        s2 == IF sd_printing THEN PauseSdQueue(s1) ELSE s1
        s3 == [s2 EXCEPT !.print_job_timer = Stopwatch_pause(s2.print_job_timer),
                         !.saved_position = s2.current_position,
                         !.have_saved_position = TRUE,
                         !.current_position = PauseMoves(s2.current_position)]
        s4 == [s3 EXCEPT
           !.saved_target_hotend = s3.target_hotend,
           !.local_hotend_idle =
               Timer_start(s3.now, SEC_TO_MS(PAUSE_PARK_NOZZLE_TIMEOUT)),
           !.saved_target_bed = s3.target_bed,
           !.local_bed_idle =
               Timer_start(s3.now, SEC_TO_MS(PAUSE_PARK_NOZZLE_TIMEOUT)),
           !.pause_active = TRUE,
           !.heaters_disabled_by_timeout = FALSE,
           !.ev.op = "pause",
           !.obs = [ episodes |-> s.obs.episodes + 1, prompts |-> 0,
                     disables |-> 0, finalizes |-> s.obs.finalizes,
                     moves |-> s.obs.moves, pause_time |-> s.now,
                     prompt_time |-> 0, continue_time |-> -1,
                     recover_time |-> -1,
                     resumed |-> FALSE, sd |-> sd_printing,
                     queued |-> IF sd_printing
                                  THEN RB_Contents_from(s.ring_buffer,
                                                        s.ring_buffer.index_r,
                                                        s.ring_buffer.length)
                                  ELSE << >> ]]
    IN  PauseHostNotify(s4, sd_printing)

\* the resume request: F is 0 when no feedrate is given, else mm/min
M1125_Resume(s, F, rd) ==
  LET s1 == [s EXCEPT
               !.resume_feedrate_mm_s =
                   IF F # 0 THEN MMM_TO_MMS(F) ELSE s.resume_feedrate_mm_s,
               !.local_hotend_idle = Timer_reset,
               !.target_hotend = IF s.saved_target_hotend > 0
                                   THEN s.saved_target_hotend ELSE s.target_hotend,
               !.local_bed_idle = Timer_reset,
               !.target_bed = IF s.saved_target_bed > 0
                                THEN s.saved_target_bed ELSE s.target_bed,
               !.resume_pending = TRUE,
               !.resume_do_sd = (s.print_source = "SD"),
               !.resume_do_host = (s.print_source = "HOST"),
               !.ev.op = "resume",
               !.obs.finalizes = 0,
               !.obs.moves = 0,
               !.obs.resumed = TRUE]
  IN  M1125_CheckAndHandleHeaterTimeout(s1, rd)

M1125_flagsNotExclusive(s, hasP, hasR, F, rd) ==
  IF hasP THEN M1125_Pause(s)
  ELSE IF hasR THEN M1125_Resume(s, F, rd)
  ELSE [s EXCEPT !.ev.op = "usage"]

\* neither or both flags: the usage line only
M1125(s, hasP, hasR, F, rd) ==
  IF hasP /\ ~hasR THEN M1125_Pause(s)
  ELSE IF hasR /\ ~hasP THEN M1125_Resume(s, F, rd)
  ELSE [s EXCEPT !.ev.op = "usage"]

(***************************************************************************)
(* Continue and abort                                                      *)
(***************************************************************************)
\* variant: whole seconds, rounded down
M1125_TimeoutRemainingSeconds_floor(s) ==
  IF ~s.timeout_pending THEN 0
  ELSE LET diff == s.timeout_deadline_ms - s.now
       IN  IF diff > 0 THEN diff \div 1000 ELSE 0

\* M1125_TimeoutRemainingSeconds
M1125_TimeoutRemainingSeconds(s) ==
  IF ~s.timeout_pending THEN 0
  ELSE LET diff == s.timeout_deadline_ms - s.now
       IN  IF diff > 0 THEN (diff + 999) \div 1000 ELSE 0

\* variant: the recovery re-applies the targets and leaves the timers as
\* they are
M1125_TimeoutContinueRecovery_noRestart(s) ==
  [s EXCEPT
     !.target_hotend = IF s.saved_target_hotend > 0
                         THEN s.saved_target_hotend ELSE s.target_hotend,
     !.target_bed = IF s.saved_target_bed > 0
                      THEN s.saved_target_bed ELSE s.target_bed,
     !.heaters_disabled_by_timeout = FALSE]

M1125_TimeoutContinueRecovery(s) ==
  [s EXCEPT
     !.target_hotend = IF s.saved_target_hotend > 0
                         THEN s.saved_target_hotend ELSE s.target_hotend,
     !.local_hotend_idle =
         Timer_start(s.now, SEC_TO_MS(PAUSE_PARK_NOZZLE_TIMEOUT)),
     !.target_bed = IF s.saved_target_bed > 0
                      THEN s.saved_target_bed ELSE s.target_bed,
     !.local_bed_idle =
         Timer_start(s.now, SEC_TO_MS(PAUSE_PARK_NOZZLE_TIMEOUT)),
     !.heaters_disabled_by_timeout = FALSE]

\* variant: the new deadline counted from the moment Continue is pressed
ExtendedDeadline_fromNow(s) ==
  s.now + SEC_TO_MS(PAUSE_PARK_NOZZLE_TIMEOUT)

\* the deadline after Continue is pressed in the grace window
ExtendedDeadline(s) ==
  s.timeout_deadline_ms + SEC_TO_MS(PAUSE_PARK_NOZZLE_TIMEOUT)

M1125_TimeoutContinue(s) ==
  IF ~s.timeout_pending
    THEN IF s.heaters_disabled_by_timeout
           THEN M1125_TimeoutContinueRecovery(s)
           ELSE s
    ELSE [s EXCEPT
            !.timeout_old_remaining_at_continue =
                M1125_TimeoutRemainingSeconds(s) + PAUSE_PARK_NOZZLE_TIMEOUT,
            !.timeout_deadline_ms = ExtendedDeadline(s),
            !.continue_pressed = TRUE]

M1125_TimeoutContinueAction(s) ==
  M1125_TimeoutContinueRecovery(M1125_TimeoutContinue(s))

\* variant: an abort that also switches the heaters off
M1125_AbortPause_disablesHeaters(s) ==
  [s EXCEPT
     !.pause_active = FALSE,
     !.resume_pending = FALSE,
     !.have_saved_position = FALSE,
     !.saved_cmd_count = 0,
     !.timeout_pending = FALSE,
     !.heaters_disabled_by_timeout = FALSE,
     !.local_hotend_idle = Timer_reset,
     !.saved_target_hotend = 0,
     !.local_bed_idle = Timer_reset,
     !.saved_target_bed = 0,
     !.target_hotend = 0,
     !.target_bed = 0,
     !.suppress_auto_job_timer = FALSE,
     !.suppress_popup = FALSE,
     !.ev.op = "abort"]

\* variant: an abort that leaves the resume request standing
M1125_AbortPause_keepsResume(s) ==
  [s EXCEPT
     !.pause_active = FALSE,
     !.have_saved_position = FALSE,
     !.saved_cmd_count = 0,
     !.timeout_pending = FALSE,
     !.heaters_disabled_by_timeout = FALSE,
     !.local_hotend_idle = Timer_reset,
     !.saved_target_hotend = 0,
     !.local_bed_idle = Timer_reset,
     !.saved_target_bed = 0,
     !.suppress_auto_job_timer = FALSE,
     !.suppress_popup = FALSE,
     !.ev.op = "abort"]

M1125_AbortPause(s) ==
  [s EXCEPT
     !.pause_active = FALSE,
     !.resume_pending = FALSE,
     !.have_saved_position = FALSE,
     !.saved_cmd_count = 0,
     !.timeout_pending = FALSE,
     !.heaters_disabled_by_timeout = FALSE,
     !.local_hotend_idle = Timer_reset,
     !.saved_target_hotend = 0,
     !.local_bed_idle = Timer_reset,
     !.saved_target_bed = 0,
     !.suppress_auto_job_timer = FALSE,
     !.suppress_popup = FALSE,
     !.ev.op = "abort"]


(***************************************************************************)
(* Host notification cache (hostui_store_notification,                     *)
(* HostUI::should_suppress_m117)                                           *)
(***************************************************************************)
HOSTUI_NOTIFICATION_SUPPRESS_WINDOW_MS == 5000

\* a const char*: a null pointer, or a pointer to the string s
NullMsg == [null |-> TRUE, s |-> ""]
Msg(str) == [null |-> FALSE, s |-> str]

\* !message || !*message
NoText(message) == message.null \/ message.s = ""

\* the cache as a record [text, ms]
hostui_store_notification(c, message, millis) ==
  IF NoText(message) THEN [text |-> "", ms |-> 0]
  ELSE [text |-> message.s, ms |-> millis]

\* the answer and the cache after the call
should_suppress_m117(c, message, millis) ==
  IF NoText(message) THEN [ret |-> FALSE, cache |-> c]
  ELSE IF c.text = "" THEN [ret |-> FALSE, cache |-> c]
  ELSE IF c.ms = 0 THEN [ret |-> FALSE, cache |-> c]
  ELSE IF millis - c.ms > HOSTUI_NOTIFICATION_SUPPRESS_WINDOW_MS
         THEN [ret |-> FALSE, cache |-> c]
  ELSE IF message.s # c.text THEN [ret |-> FALSE, cache |-> c]
  ELSE [ret |-> TRUE, cache |-> hostui_store_notification(c, NullMsg, millis)]

(***************************************************************************)
(* Media presence and mount state machine (manage_media)                   *)
(***************************************************************************)
MEDIA_BOOT == -1
INSERT_NONE == 0
INSERT_MEDIA == 1
INSERT_SD == 2
INSERT_USB == 4

\* MockCardReader::mount
MockCard_mount(c) ==
  [c EXCEPT !.mount_call_count = @ + 1, !.mounted = c.mount_will_succeed]

\* MockCardReader::abortFilePrint; abort_saw_mounted observes the mounted
\* flag at the moment of the abort
MockCard_abortFilePrint(c) ==
  [c EXCEPT !.abort_call_count = @ + 1, !.abort_sd_printing = TRUE,
            !.sdprinting = FALSE, !.pending_print_start = FALSE,
            !.abort_saw_mounted = c.mounted]

MockCard_release_unmountsFirst(c) ==
  LET c1 == [c EXCEPT !.release_call_count = @ + 1, !.mounted = FALSE]
  IN  IF c1.sdprinting \/ c1.pending_print_start
        THEN MockCard_abortFilePrint(c1) ELSE c1

\* MockCardReader::release
MockCard_release(c) ==
  LET c1 == [c EXCEPT !.release_call_count = @ + 1]
      c2 == IF c1.sdprinting \/ c1.pending_print_start
              THEN MockCard_abortFilePrint(c1) ELSE c1
  IN  [c2 EXCEPT !.mounted = FALSE]

\* MockUI::media_changed
MockUI_media_changed(u, old_status, new_status) ==
  LET removed == old_status > MEDIA_BOOT /\ new_status < old_status
  IN  [ last_old_status |-> old_status,
        last_new_status |-> new_status,
        media_changed_calls |-> u.media_changed_calls + 1,
        message_count |-> IF removed THEN u.message_count + 1 ELSE u.message_count,
        last_message_was_removed |-> removed ]

MountWanted_atBoot(c, old_stat) == ~c.mounted

\* if (!mock_card.isMounted() && old_stat > MEDIA_BOOT)
MountWanted(c, old_stat) == ~c.mounted /\ old_stat > MEDIA_BOOT

\* (old_stat == MEDIA_BOOT) ? INSERT_NONE : old_stat
OldReal(old_stat) == IF old_stat = MEDIA_BOOT THEN INSERT_NONE ELSE old_stat

ReportedLevel_notReverted(did_insert, mounted, stat, old_real) == stat

\* if (!mock_card.isMounted()) stat = old_real;   (inside if (did_insert))
ReportedLevel(did_insert, mounted, stat, old_real) ==
  IF did_insert /\ ~mounted THEN old_real ELSE stat

UiSkipped_recordsReading(m) == [m EXCEPT !.prev_stat = m.card.insertion_state]

\* if (!mock_ui.detected()) return;   (prev_stat is not yet updated)
UiSkipped(m) == m

ReadingUnchanged_never(stat, prev) == FALSE

\* if (stat == prev_stat) return;
ReadingUnchanged(stat, prev) == stat = prev

\* m is [card, ui, prev_stat]
manage_media_simplified(m) ==
  LET stat == m.card.insertion_state IN
  IF ReadingUnchanged(stat, m.prev_stat) THEN m
  ELSE IF ~m.card.ui_detected THEN UiSkipped(m)
  ELSE
    LET old_stat == m.prev_stat
        old_real == OldReal(old_stat)
        did_insert == stat # INSERT_NONE /\ stat > old_real
        c1 == IF did_insert
                THEN (IF MountWanted(m.card, old_stat)
                        THEN MockCard_mount(m.card) ELSE m.card)
              ELSE IF stat < old_real THEN MockCard_release(m.card)
              ELSE m.card
        reported == ReportedLevel(did_insert, c1.mounted, stat, old_real)
    IN  [ card |-> c1,
          ui |-> MockUI_media_changed(m.ui, old_stat, reported),
          prev_stat |-> stat ]

(***************************************************************************)
(* Inputs                                                                  *)
(***************************************************************************)
Str_G1X5   == <<"G","1"," ","X","5">>
Str_G28    == <<"G","2","8">>
Str_M600   == <<"M","6","0","0">>
Str_m1125p == <<"m","1","1","2","5"," ","p">>

Line(text) == [buffer |-> text, skip_ok |-> FALSE]

EmptyCommands == [i \in Slots |-> EmptyLine]
EmptyRing == [length |-> 0, index_r |-> 0, index_w |-> 0, commands |-> EmptyCommands]

\* a ring buffer holding the lines of q from read index r on
RECURSIVE RingOf(_, _)
RingOf(q, r) ==
  IF Len(q) = 0
    THEN [length |-> 0, index_r |-> r, index_w |-> r, commands |-> EmptyCommands]
    ELSE LET rest == RingOf(SubSeq(q, 1, Len(q) - 1), r)
         IN  RB_advance_w([rest EXCEPT !.commands[rest.index_w] = q[Len(q)]])

HotendTargets == {0, 200}
BedTargets == {60}
\* one degree outside the window below the target, and the window's edge
HotendTemps == {200 - TEMP_WINDOW - 1, 200 - TEMP_WINDOW}
BedTemps == {60 - TEMP_BED_WINDOW - 1, 60 - TEMP_BED_WINDOW}

PrintPosition == [x |-> 1000, y |-> 1200, z |-> 30, e |-> 5000]

\* the job at power-up of the model: host streaming, SD streaming, or a host
\* job with an SD file left open
InitCards ==
  { [fileOpen |-> FALSE, sdprinting |-> FALSE, sdpos |-> 0],
    [fileOpen |-> TRUE,  sdprinting |-> TRUE,  sdpos |-> 7],
    [fileOpen |-> TRUE,  sdprinting |-> FALSE, sdpos |-> 7] }

\* what the SD reader has committed when the model starts
InitQueues ==
  { RingOf(<<Line(Str_M600), Line(Str_G1X5), Line(Str_m1125p)>>, BUFSIZE - 2) }

InitObs ==
  [ episodes |-> 0, prompts |-> 0, disables |-> 0, finalizes |-> 0,
    moves |-> 0, pause_time |-> 0, prompt_time |-> 0, continue_time |-> -1,
    recover_time |-> -1,
    resumed |-> FALSE, sd |-> FALSE, queued |-> << >> ]

\* no command has been handed to the filter on its own
NoFilterCall == filter_cmd = NullPtr /\ filter_skip = "unset"

\* no ring buffer operation has been observed
InitRingLog ==
  [ fifo |-> << >>, n |-> 0, op |-> "none", ret |-> FALSE, text |-> << >>,
    peeked |-> << >>, expected |-> << >>, was_empty |-> FALSE,
    pause_line |-> -1 ]
NoRingCall == rb_log = InitRingLog

\* setUp(): mock_card.reset(); mock_ui.reset(); prev_stat = MEDIA_BOOT;
InitMockCard ==
  [ mounted |-> FALSE, sdprinting |-> FALSE, abort_sd_printing |-> FALSE,
    pending_print_start |-> FALSE, insertion_state |-> INSERT_NONE,
    mount_will_succeed |-> TRUE, ui_detected |-> TRUE,
    mount_call_count |-> 0, release_call_count |-> 0, abort_call_count |-> 0,
    abort_saw_mounted |-> FALSE ]
InitMockUI ==
  [ last_old_status |-> MEDIA_BOOT, last_new_status |-> MEDIA_BOOT,
    media_changed_calls |-> 0, message_count |-> 0,
    last_message_was_removed |-> FALSE ]
InitMediaObs ==
  [ changes |-> 0, kind |-> "boot", was_mounted |-> FALSE,
    polls |-> 0, ready_polls |-> 0, mounts |-> 0, removals |-> 0,
    failed |-> FALSE, retried |-> FALSE, late |-> FALSE ]

\* the media state machine has not been polled
NoMedia ==
  /\ mock_card = InitMockCard
  /\ mock_ui = InitMockUI
  /\ prev_stat = MEDIA_BOOT
  /\ media_obs = InitMediaObs

\* no host notification was stored and no M117 was judged
InitM117Obs == [ op |-> "none", text |-> [null |-> TRUE, s |-> ""],
                 ret |-> FALSE, stored |-> "",
                 suppressed |-> 0 ]

NoNotify ==
  /\ hostui_last_notification = ""
  /\ hostui_last_notification_ms = 0
  /\ m117_obs = InitM117Obs

\* no host is connected to a serial port
NoHost == host_serial_connected = FALSE

\* the state after construction (the statics' initialisers)
InitController ==
  /\ m1125_saved_position = [x |-> 0, y |-> 0, z |-> 0, e |-> 0]
  /\ m1125_have_saved_position = FALSE
  /\ m1125_pause_active = FALSE
  /\ m1125_heaters_disabled_by_timeout = FALSE
  /\ m1125_timeout_pending = FALSE
  /\ m1125_timeout_deadline_ms = 0
  /\ m1125_timeout_old_remaining_at_continue = 0
  /\ m1125_continue_pressed = FALSE
  /\ m1125_resume_pending = FALSE
  /\ m1125_resume_do_sd = FALSE
  /\ m1125_resume_do_host = FALSE
  /\ m1125_resume_feedrate_mm_s = DefaultResumeFeedrate
  /\ m1125_suppress_auto_job_timer = FALSE
  /\ m1125_saved_commands = EmptyCommands
  /\ m1125_saved_cmd_count = 0
  /\ m1125_local_hotend_idle = Timer_reset
  /\ m1125_local_bed_idle = Timer_reset
  /\ m1125_saved_target_hotend = 0
  /\ m1125_saved_target_bed = 0
  /\ print_source = "NONE"
  /\ suppress_popup_pause_response = FALSE
  /\ wait_for_user = FALSE
  /\ injected_pending = FALSE
  /\ ev = NoEvent
  /\ obs = InitObs

Init ==
  /\ InitController
  /\ NoMedia
  /\ NoHost
  /\ NoFilterCall
  /\ NoRingCall
  /\ NoNotify
  /\ now = 0
  /\ target_hotend = 200 /\ target_bed = 60
  /\ card \in InitCards
  /\ ring_buffer \in (IF Card_sd_printing(card) THEN InitQueues ELSE {EmptyRing})
  /\ current_position = PrintPosition
  /\ print_job_timer = "RUNNING"

(***************************************************************************)
(* Actions                                                                 *)
(***************************************************************************)
Start == [Cur EXCEPT !.ev = NoEvent]

\* what the thermistors can read when the controller asks
Readings == [hotend : HotendTemps, bed : BedTemps]

\* the main loop's clock
Tick ==
  /\ now + TickMs <= MaxTicks * TickMs
  /\ Commit([Start EXCEPT !.now = now + TickMs])

\* the user (or the host) changes a heater target
SetTarget ==
  \E th \in HotendTargets, tb \in BedTargets :
    /\ <<th, tb>> # <<target_hotend, target_bed>>
    /\ Commit([Start EXCEPT !.target_hotend = th, !.target_bed = tb])

Cmd_M1125_P ==
  /\ m1125_pause_active \/ obs.episodes < MaxEpisodes
  /\ \E rd \in Readings : Commit(M1125(Start, TRUE, FALSE, 0, rd))

Cmd_M1125_R ==
  \E F \in {0, 3000}, rd \in Readings :
    Commit(M1125(Start, FALSE, TRUE, F, rd))

Cmd_M1125_usage ==
  \E b \in BOOLEAN, rd \in Readings :
    Commit(M1125(Start, b, b, 0, rd))

\* the DGUS UI loop calls M1125_CheckAndHandleHeaterTimeout()
Poll ==
  \E rd \in Readings :
    Commit(M1125_CheckAndHandleHeaterTimeout(Start, rd))

\* DGUSScreenHandler::HandleM1125TimeoutConfirm: YES is raw 2, NO is raw 1;
\* the caller releases the user wait and pops the popup
TimeoutConfirm ==
  \E raw \in {1, 2} :
    /\ wait_for_user
    /\ Commit(IF raw = 2
                THEN [M1125_TimeoutContinueAction(Start) EXCEPT
                        !.wait_for_user = FALSE, !.ev.op = "continue",
                        !.obs.continue_time = now,
                        !.obs.recover_time =
                            IF /\ m1125_heaters_disabled_by_timeout
                               /\ ~m1125_timeout_pending
                              THEN now ELSE @]
                ELSE [Start EXCEPT !.wait_for_user = FALSE])

Abort ==
  Commit(M1125_AbortPause(Start))

Next ==
  \/ Tick
  \/ SetTarget
  \/ Cmd_M1125_P
  \/ Cmd_M1125_R
  \/ Cmd_M1125_usage
  \/ Poll
  \/ TimeoutConfirm
  \/ Abort

Spec == Init /\ [][Next]_vars

(***************************************************************************)
(* Properties of the pause/resume controller                               *)
(***************************************************************************)
\* everything the controller and its collaborators hold, observers excluded
ProgramState ==
  << now, m1125_saved_position, m1125_have_saved_position,
     m1125_pause_active, m1125_heaters_disabled_by_timeout,
     m1125_timeout_pending, m1125_timeout_deadline_ms,
     m1125_timeout_old_remaining_at_continue, m1125_continue_pressed,
     m1125_resume_pending, m1125_resume_do_sd, m1125_resume_do_host,
     m1125_resume_feedrate_mm_s, m1125_suppress_auto_job_timer,
     m1125_saved_commands, m1125_saved_cmd_count,
     m1125_local_hotend_idle, m1125_local_bed_idle,
     m1125_saved_target_hotend, m1125_saved_target_bed,
     print_source, suppress_popup_pause_response, wait_for_user,
     target_hotend, target_bed, card, ring_buffer, current_position,
     print_job_timer, host_serial_connected, injected_pending >>

IdleTimeoutMs == PAUSE_PARK_NOZZLE_TIMEOUT * 1000
GraceMs == M1125_TIMEOUT_GRACE_SECONDS * 1000

\* C1: an M1125 P that arrives while a pause is active is refused and
\* changes nothing: PrintSource, the saved position and its validity, the
\* saved heater targets, the saved commands, the idle timers and both
\* suppression tokens are as the first pause left them.
C1_PauseIdempotent ==
  [][ (m1125_pause_active /\ ev'.op = "pause")
        => (ev'.rejected /\ UNCHANGED ProgramState) ]_vars

\* a second pause was refused while an SD pause with saved commands, a saved
\* position and armed idle timers was in force
C1_Witness ==
  /\ ev.op = "pause" /\ ev.rejected
  /\ m1125_pause_active /\ print_source = "SD"
  /\ m1125_saved_cmd_count > 0 /\ m1125_have_saved_position
  /\ m1125_local_hotend_idle.active /\ m1125_saved_target_hotend > 0

\* a target that is set (> 0) is within w degrees of the reading
WithinWindow(tgt, whole, w) == tgt <= 0 \/ (whole - tgt <= w /\ tgt - whole <= w)

GateOpen(rd) ==
  /\ WithinWindow(m1125_saved_target_hotend, rd.hotend, TEMP_WINDOW)
  /\ WithinWindow(m1125_saved_target_bed, rd.bed, TEMP_BED_WINDOW)

\* a step of the UI loop's poll that read rd
PollStep(rd) == Commit(M1125_CheckAndHandleHeaterTimeout(Start, rd))

\* C2: after M1125 R the return move and the clearing of pause-active happen
\* only in a finalize whose readings were within the window of every saved
\* target that is set; a poll that finds them within the window finalizes
\* (unless that very poll posted the prompt or disabled the heaters), and the
\* finalize sequence runs once per resume request.
C2_ResumeGating ==
  /\ [] ( /\ ev.finalized =>
               /\ WithinWindow(ev.gate_hotend, ev.read_hotend, TEMP_WINDOW)
               /\ WithinWindow(ev.gate_bed, ev.read_bed, TEMP_BED_WINDOW)
          /\ obs.finalizes <= 1 /\ obs.moves <= 1 )
  /\ [][ /\ (m1125_pause_active /\ ~m1125_pause_active')
              => (ev'.finalized \/ ev'.op = "abort")
         /\ ev'.moved => ev'.finalized
         /\ (m1125_pause_active /\ current_position' # current_position)
              => ev'.finalized
         /\ ev'.finalized
              => /\ (m1125_resume_pending \/ ev'.op = "resume")
                 /\ ~m1125_resume_pending' /\ ~m1125_pause_active'
         /\ \A rd \in Readings :
              (m1125_pause_active /\ m1125_resume_pending /\ GateOpen(rd)
                 /\ PollStep(rd))
                => (ev'.finalized \/ ev'.prompt \/ ev'.disabled) ]_vars

\* a poll (not the resume request itself) finalized a resume that was gated
\* on both heaters and made the return move
C2_Witness ==
  /\ ev.finalized /\ ev.op = "none" /\ ev.moved
  /\ ev.gate_hotend > 0 /\ ev.gate_bed > 0
  /\ obs.resumed /\ obs.finalizes = 1 /\ ~m1125_pause_active


\* C3: within one pause in which Continue is not pressed, the prompt is
\* posted once and no earlier than T after the pause, and the heaters are
\* disabled once, only after that pause's prompt and its grace window.
C3_WatchdogStaging ==
  (obs.episodes >= 1 /\ obs.continue_time < 0) =>
     /\ obs.prompts <= 1 /\ obs.disables <= 1
     /\ ev.prompt => now >= obs.pause_time + IdleTimeoutMs
     /\ ev.disabled => (obs.prompts = 1 /\ now >= obs.prompt_time + GraceMs)
     /\ ev.ret => ev.disabled

\* C4: Continue pressed while the grace window is pending moves the deadline
\* to the previous deadline plus one full idle timeout, leaves the watchdog
\* pending, and no poll disables the heaters before the deadline in force.
C4_ContinueExtends ==
  [][ /\ (m1125_timeout_pending /\ ev'.op = "continue")
           => /\ m1125_timeout_deadline_ms'
                   = m1125_timeout_deadline_ms + IdleTimeoutMs
              /\ m1125_timeout_pending' /\ m1125_continue_pressed'
              /\ ~m1125_heaters_disabled_by_timeout' /\ ~ev'.disabled
      /\ ev'.disabled => (m1125_timeout_pending /\ now' >= m1125_timeout_deadline_ms)
      /\ (m1125_timeout_pending /\ m1125_timeout_pending')
           => m1125_timeout_deadline_ms' >= m1125_timeout_deadline_ms ]_vars

\* Continue was pressed in the grace window, the original deadline has passed
\* and the watchdog is still pending with the heaters on
C4_Witness ==
  /\ m1125_pause_active /\ m1125_timeout_pending /\ m1125_continue_pressed
  /\ obs.prompts = 1 /\ obs.continue_time >= obs.prompt_time
  /\ obs.continue_time < obs.prompt_time + GraceMs
  /\ m1125_timeout_deadline_ms = obs.prompt_time + GraceMs + IdleTimeoutMs
  /\ now >= obs.prompt_time + GraceMs
  /\ obs.disables = 0 /\ target_hotend > 0

\* C6: after M1125_AbortPause the pause, resume, saved-position, pending and
\* disabled flags are false, the saved command count and saved targets are
\* zero, no idle timer is armed and both suppression tokens are released;
\* and while no pause is active no operation posts the prompt, disables the
\* heaters or finalizes a resume.
C6_AbortResets ==
  /\ [] ( ev.op = "abort" =>
            /\ ~m1125_pause_active /\ ~m1125_resume_pending
            /\ ~m1125_have_saved_position /\ ~m1125_timeout_pending
            /\ ~m1125_heaters_disabled_by_timeout
            /\ m1125_saved_cmd_count = 0
            /\ m1125_saved_target_hotend = 0 /\ m1125_saved_target_bed = 0
            /\ ~m1125_local_hotend_idle.active /\ ~m1125_local_hotend_idle.timed_out
            /\ ~m1125_local_bed_idle.active /\ ~m1125_local_bed_idle.timed_out
            /\ ~m1125_suppress_auto_job_timer /\ ~suppress_popup_pause_response )
  /\ [][ ~m1125_pause_active =>
            /\ ~ev'.prompt /\ ~ev'.disabled /\ ~ev'.finalized /\ ~ev'.moved
            /\ \A rd \in Readings : PollStep(rd) => UNCHANGED ProgramState ]_vars

\* an abort that hit a pause whose heaters the watchdog had disabled and
\* whose resume request was still waiting
C6_Witness ==
  /\ ev.op = "abort"
  /\ obs.resumed /\ obs.finalizes = 0 /\ obs.prompts = 1 /\ obs.disables = 1
  /\ ~m1125_pause_active /\ ~m1125_resume_pending

\* C7: an M1125 R that arrives while no pause is active changes nothing.
C7_ResumeWithoutEpisode ==
  [][ (~m1125_pause_active /\ ev'.op = "resume") => UNCHANGED ProgramState ]_vars

(***************************************************************************)
(* The watchdog on a one-second scale: a host print, the clock stepping    *)
(* through the instants around the idle timeout, the grace deadline and    *)
(* the deadlines a Continue can produce.                                   *)
(***************************************************************************)
ScenarioInstants ==
  << 0, 1000, 299000, 300000, 301000, 329000, 330000, 331000,
     599000, 600000, 601000, 629000, 630000, 631000 >>

InitScenario ==
  /\ InitController
  /\ NoMedia
  /\ NoHost
  /\ NoFilterCall
  /\ NoRingCall
  /\ NoNotify
  /\ now = 0
  /\ target_hotend = 200 /\ target_bed = 60
  /\ card = [fileOpen |-> FALSE, sdprinting |-> FALSE, sdpos |-> 0]
  /\ ring_buffer = EmptyRing
  /\ current_position = PrintPosition
  /\ print_job_timer = "RUNNING"

ScenarioTick ==
  \E i \in 1 .. (Len(ScenarioInstants) - 1) :
    /\ now = ScenarioInstants[i]
    /\ Commit([Start EXCEPT !.now = ScenarioInstants[i + 1]])

NextScenario ==
  \/ ScenarioTick
  \/ Cmd_M1125_P
  \/ Poll
  \/ TimeoutConfirm

SpecScenario == InitScenario /\ [][NextScenario]_vars

\* the run of the scenario: paused at t = 0, prompted by the poll at 300 s,
\* Continue pressed at 329 s, the watchdog still pending
ScenarioRun ==
  /\ obs.episodes = 1 /\ obs.pause_time = 0
  /\ obs.prompts = 1 /\ obs.prompt_time = 300000
  /\ obs.continue_time = 329000
  /\ m1125_timeout_pending

\* C5 as stated: in the scenario the heaters are not disabled and the new
\* deadline is the 300 s timeout point plus 300 s, t = 600 s.
C5_ScenarioAsStated ==
  ScenarioRun => (obs.disables = 0 /\ m1125_timeout_deadline_ms = 600000)

\* C5 amended: a pause at t = 0 is prompted no earlier than 300 s and by the
\* first poll from 300 s on; after Continue at 329 s the heaters are not
\* disabled and the new deadline is the grace deadline (330 s) plus 300 s,
\* t = 630 s.
C5_Scenario ==
  /\ [] ( /\ (obs.episodes = 1 /\ obs.pause_time = 0 /\ obs.prompts >= 1)
               => obs.prompt_time >= 300000
          /\ ScenarioRun =>
               /\ obs.disables = 0 /\ ~m1125_heaters_disabled_by_timeout
               /\ target_hotend = 200 /\ target_bed = 60
               /\ m1125_timeout_deadline_ms = 630000 )
  /\ [][ /\ \A rd \in Readings :
              (m1125_pause_active /\ obs.pause_time = 0 /\ obs.prompts = 0
                 /\ now >= 300000 /\ PollStep(rd)) => ev'.prompt
         /\ (ScenarioRun /\ now < 630000) => ~ev'.disabled ]_vars

\* the scenario has run past t = 600 s: still pending, heaters on
C5_Witness ==
  /\ ScenarioRun /\ now >= 600000 /\ now < 630000
  /\ m1125_timeout_deadline_ms = 630000
  /\ obs.disables = 0 /\ target_hotend = 200

(***************************************************************************)
(* The queue round trip: an SD print whose ring buffer holds any short     *)
(* sequence of commands (or is full) at any read index is paused and       *)
(* resumed.                                                                *)
(***************************************************************************)
QueueAlphabet == { Line(Str_G1X5), Line(Str_G28), Line(Str_M600), Line(Str_m1125p) }

FullQueues ==
  { << Line(Str_M600), Line(Str_G1X5), Line(Str_m1125p), Line(Str_G28),
       Line(Str_G1X5), Line(Str_M600), Line(Str_G28), Line(Str_G1X5) >>,
    << Line(Str_G28), Line(Str_G1X5), Line(Str_G28), Line(Str_G1X5),
       Line(Str_G28), Line(Str_G1X5), Line(Str_G28), Line(Str_M600) >> }

QueueInputs ==
  (UNION { [1 .. k -> QueueAlphabet] : k \in 0 .. MaxQueued }) \cup FullQueues

InitQueue ==
  /\ InitController
  /\ NoMedia
  /\ NoHost
  /\ NoFilterCall
  /\ NoRingCall
  /\ NoNotify
  /\ now = 0
  /\ target_hotend = 200 /\ target_bed = 60
  /\ card = [fileOpen |-> TRUE, sdprinting |-> TRUE, sdpos |-> 7]
  /\ ring_buffer \in { RingOf(q, r) : q \in QueueInputs, r \in Slots }
  /\ current_position = PrintPosition
  /\ print_job_timer = "RUNNING"

NextQueue ==
  \/ Cmd_M1125_P
  \/ Cmd_M1125_R
  \/ Poll

SpecQueue == InitQueue /\ [][NextQueue]_vars

\* the same letter, whatever its case
SameLetter(c, u) ==
  c = u \/ \E i \in 1 .. 26 : LowerChars[i] = c /\ UpperChars[i] = u

\* how many spaces the text starts with
LeadingSpaces(cmd) ==
  CHOOSE k \in 0 .. Len(cmd) :
    /\ \A i \in 1 .. k : cmd[i] = " "
    /\ (k = Len(cmd) \/ cmd[k + 1] # " ")

\* after its leading spaces the text begins with word (in either case) and
\* the word ends there: end of text, space, tab or ';'
BeginsWithWord(cmd, word) ==
  LET k == LeadingSpaces(cmd)
      e == k + Len(word)
  IN  /\ Len(cmd) >= e
      /\ \A j \in 1 .. Len(word) : SameLetter(cmd[k + j], word[j])
      /\ (Len(cmd) = e \/ cmd[e + 1] \in {" ", "\t", ";"})

IsM600orM1125(cmd) ==
  cmd # NullPtr /\ (BeginsWithWord(cmd, T_M600) \/ BeginsWithWord(cmd, T_M1125))

KeptOf(q) == SelectSeq(q, LAMBDA l : ~IsM600orM1125(l.buffer))

QueueNow == RB_Contents_from(ring_buffer, ring_buffer.index_r, ring_buffer.length)

\* C8: when the resume of a paused SD print has finalized, the queue holds
\* the commands that were queued at the pause without the M600 and M1125
\* ones, in their order, and none of those is replayed.
C8_QueueRoundTrip ==
  (ev.finalized /\ obs.episodes >= 1 /\ obs.sd) =>
     /\ QueueNow = KeptOf(obs.queued)
     /\ \A i \in 1 .. Len(QueueNow) : ~IsM600orM1125(QueueNow[i].buffer)

(***************************************************************************)
(* The saved-command filter on its own: one command text, drawn from       *)
(* prefix x word x tail combinations and the named examples, is handed to  *)
(* m1125_should_skip_saved_command.                                        *)
(***************************************************************************)
FilterPrefixes ==
  { << >>, <<" ">>, <<" ", " ">>, <<"\t">>, <<" ", "\t">>, <<"\t", " ">> }

FilterWords ==
  { << >>, <<"M","6","0","0">>, <<"m","6","0","0">>, <<"M","6","0">>,
    <<"M","1","1","2","5">>, <<"m","1","1","2","5">>, <<"M","1","1","2">>,
    <<"G","2","8">> }

FilterTails ==
  { << >>, <<" ">>, <<"\t">>, <<";">>, <<"0">>, <<"X">>,
    <<" ","X","1","0">>, <<"\t","X","5","0">>, <<" ",";"," ","c">>,
    <<" ","p">>, <<" ","r">> }

Str_M117_Next_M600 ==
  <<"M","1","1","7"," ","N","e","x","t",":"," ","M","6","0","0">>

FilterInputs ==
  { p \o w \o t : p \in FilterPrefixes, w \in FilterWords, t \in FilterTails }
    \cup { NullPtr, Str_M117_Next_M600, <<"\t", "\t">>, Str_G1X5, Str_m1125p }

InitFilter ==
  /\ InitController
  /\ NoMedia
  /\ NoHost
  /\ filter_cmd \in FilterInputs
  /\ filter_skip = "unset"
  /\ NoRingCall
  /\ NoNotify
  /\ now = 0
  /\ target_hotend = 200 /\ target_bed = 60
  /\ card = [fileOpen |-> TRUE, sdprinting |-> TRUE, sdpos |-> 7]
  /\ ring_buffer = EmptyRing
  /\ current_position = PrintPosition
  /\ print_job_timer = "RUNNING"

\* the copy loop asks the filter about one command
FilterSavedCommand ==
  /\ filter_skip = "unset"
  /\ filter_skip' = IF m1125_should_skip_saved_command(filter_cmd)
                      THEN "skip" ELSE "keep"
  /\ UNCHANGED << ProgramState, filter_cmd, rb_log, mediaVars, notifyVars, ev, obs >>

NextFilter == FilterSavedCommand

SpecFilter == InitFilter /\ [][NextFilter]_vars

\* the commands the filter is said to keep
KeptExamples ==
  { <<"M","6","0">>, <<"M","6","0","0","0">>, <<"M","1","1","2">>,
    <<"M","1","1","2","5","0">>, <<"\t","M","6","0","0">>,
    Str_M117_Next_M600 }

\* the saved set [M600, G1 X5, m1125 p] through the copy loop of the pause
SavedSetExample ==
  CopyQueued(RingOf(<< Line(Str_M600), Line(Str_G1X5), Line(Str_m1125p) >>, 0),
             0, 0, 3, EmptyCommands, 0)

C10_BlankSkipped ==
  ( /\ filter_skip # "unset"
    /\ \/ filter_cmd = NullPtr
       \/ \A i \in 1 .. Len(filter_cmd) : filter_cmd[i] \in {" ", "\t"} )
    => filter_skip = "skip"


(***************************************************************************)
(* The ring buffer on its own: clear, enqueue, advance_r, and the command  *)
(* dispatcher that executes the head command and then advances             *)
(***************************************************************************)
Digits == <<"0","1","2","3","4","5","6","7","8","9">>

\* snprintf(cmd, sizeof(cmd), "G1 X%d", i): a text that names its position
RingCmd(n) == <<"G", "1", " ", "X", Digits[(n % 10) + 1]>>
Str_comment == <<";", "c">>

\* the lines of the file that are a pause command
PauseLines == {3, 9}

\* what the reader can hand to enqueue as line n of the file
RingTexts(n) ==
  {IF n = rb_log.pause_line THEN Str_m1125p ELSE RingCmd(n), Str_comment}

\* RingBuffer rb; rb.clear(); while an SD job is streaming
InitRing ==
  /\ InitController
  /\ NoMedia
  /\ NoHost
  /\ NoNotify
  /\ NoFilterCall
  /\ rb_log \in {[InitRingLog EXCEPT !.pause_line = k] : k \in PauseLines}
  /\ now = 0
  /\ target_hotend = 200 /\ target_bed = 60
  /\ card = [fileOpen |-> TRUE, sdprinting |-> TRUE, sdpos |-> 7]
  /\ ring_buffer = RB_clear(EmptyRing)
  /\ current_position = PrintPosition
  /\ print_job_timer = "RUNNING"

\* the observer's own queue: what a first-in first-out queue of capacity
\* BUFSIZE holds after the same operations
FifoAccepts(cmd) == CharAt(cmd, 1) # ";" /\ Len(rb_log.fifo) < BUFSIZE

\* rb.enqueue(cmd, false)
Ring_enqueue ==
  \E cmd \in RingTexts(rb_log.n) :
    /\ rb_log.n < MaxRingOps
    /\ CommitProgram([Cur EXCEPT !.ring_buffer = RB_enqueue(ring_buffer, cmd, FALSE)])
    /\ rb_log' = [ rb_log EXCEPT
                     !.fifo = IF FifoAccepts(cmd) THEN Append(@, cmd) ELSE @,
                     !.n = IF FifoAccepts(cmd) THEN @ + 1 ELSE @,
                     !.op = "enqueue",
                     !.ret = RB_enqueue_ok(ring_buffer, cmd),
                     !.text = cmd,
                     !.peeked = << >>, !.expected = << >>,
                     !.was_empty = (ring_buffer.length = 0) ]
    /\ UNCHANGED << filter_cmd, filter_skip, mediaVars, notifyVars >>

\* peek_next_command_string() and then rb.advance_r()
Ring_advance_r ==
  /\ CommitProgram([Cur EXCEPT !.ring_buffer = RB_advance_r(ring_buffer)])
  /\ rb_log' = [ rb_log EXCEPT
                   !.fifo = IF Len(@) = 0 THEN @ ELSE Tail(@),
                   !.op = "advance_r",
                   !.ret = FALSE,
                   !.text = << >>,
                   !.peeked = IF ring_buffer.length = 0 THEN << >>
                              ELSE RB_peek_next_command(ring_buffer).buffer,
                   !.expected = IF Len(rb_log.fifo) = 0 THEN << >>
                                ELSE Head(rb_log.fifo),
                   !.was_empty = (ring_buffer.length = 0) ]
  /\ UNCHANGED << filter_cmd, filter_skip, mediaVars, notifyVars >>

\* rb.clear()
Ring_clear ==
  /\ CommitProgram([Cur EXCEPT !.ring_buffer = RB_clear(ring_buffer)])
  /\ rb_log' = [ rb_log EXCEPT
                   !.fifo = << >>, !.op = "clear", !.ret = FALSE,
                   !.text = << >>, !.peeked = << >>, !.expected = << >>,
                   !.was_empty = (ring_buffer.length = 0) ]
  /\ UNCHANGED << filter_cmd, filter_skip, mediaVars, notifyVars >>

\* The command dispatcher: the head command is an M1125 P; the handler runs
\* while the command is still the head of the queue, and the dispatcher then
\* advances the read index.
Ring_dispatch ==
  /\ ring_buffer.length # 0
  /\ m1125_command_matches(RB_peek_next_command(ring_buffer).buffer, T_M1125)
  /\ \E rd \in Readings :
       LET s1 == M1125(Start, TRUE, FALSE, 0, rd)
       IN  /\ CommitProgram([s1 EXCEPT !.ring_buffer = RB_advance_r(s1.ring_buffer)])
           /\ rb_log' = [ rb_log EXCEPT
                            !.fifo = IF s1.ev.rejected THEN Tail(@) ELSE << >>,
                            !.op = "dispatch", !.ret = FALSE,
                            !.text = << >>,
                            !.peeked = RB_peek_next_command(ring_buffer).buffer,
                            !.expected = IF Len(rb_log.fifo) = 0 THEN << >>
                                         ELSE Head(rb_log.fifo),
                            !.was_empty = (s1.ring_buffer.length = 0) ]
  /\ UNCHANGED << filter_cmd, filter_skip, mediaVars, notifyVars >>

NextRing ==
  \/ Ring_enqueue
  \/ Ring_advance_r
  \/ Ring_clear
  \/ Ring_dispatch

SpecRing == InitRing /\ [][NextRing]_vars

\* the texts the buffer holds, oldest first
RingTextsNow ==
  LET q == RB_Contents_from(ring_buffer, ring_buffer.index_r, ring_buffer.length)
  IN  [i \in 1 .. Len(q) |-> q[i].buffer]



\* C11: the ring buffer is first-in first-out.  At every moment the commands
\* it holds, read from index_r on, are the commands enqueued and not yet
\* removed, in the order of their enqueueing; and the command seen by
\* peek_next_command before an advance_r is the oldest of them, also after
\* the write and read indices have wrapped.
C11_FifoOrder ==
  /\ RingTextsNow = rb_log.fifo
  /\ (rb_log.op = "advance_r" /\ ~rb_log.was_empty)
       => rb_log.peeked = rb_log.expected

\* an advance_r has removed a command while the write index had wrapped
\* behind the read index
C11_Witness ==
  /\ rb_log.op = "advance_r" /\ ~rb_log.was_empty
  /\ rb_log.n > BUFSIZE
  /\ ring_buffer.length > 0
  /\ ring_buffer.index_w <= ring_buffer.index_r
  /\ rb_log.peeked = rb_log.expected


\* C12: enqueue returns false and leaves length, index_r, index_w and every
\* stored command as they were when the buffer already holds BUFSIZE commands
\* or the text begins with ';'; otherwise it returns true, stores the text at
\* the write index, leaves the other slots alone and increases length by
\* exactly one.
C12_EnqueueRejection ==
  [][ rb_log'.op = "enqueue" =>
        IF ring_buffer.length >= BUFSIZE \/ CharAt(rb_log'.text, 1) = ";"
          THEN ~rb_log'.ret /\ ring_buffer' = ring_buffer
          ELSE /\ rb_log'.ret
               /\ ring_buffer'.commands[ring_buffer.index_w].buffer = rb_log'.text
               /\ ring_buffer'.length = ring_buffer.length + 1
               /\ ring_buffer'.index_r = ring_buffer.index_r
               /\ \A i \in Slots \ {ring_buffer.index_w} :
                    ring_buffer'.commands[i] = ring_buffer.commands[i] ]_vars

\* an ordinary command has been refused by a full buffer
C12_Witness ==
  /\ rb_log.op = "enqueue" /\ ~rb_log.ret
  /\ CharAt(rb_log.text, 1) # ";"
  /\ ring_buffer.length = BUFSIZE


\* C13: advance_r on an empty ring buffer changes nothing: length stays 0
\* and index_r stays where it is.  The same holds for the advance_r of the
\* command dispatcher after an M1125 P, executed as the head command, has
\* cleared the queue: the buffer is left cleared, with length 0 and both
\* indices 0.
C13_AdvanceOnEmpty ==
  [][ /\ (rb_log'.op = "advance_r" /\ ring_buffer.length = 0)
           => ring_buffer' = ring_buffer
      /\ (rb_log'.op = "dispatch" /\ ev'.op = "pause" /\ ~ev'.rejected)
           => /\ rb_log'.was_empty
              /\ ring_buffer'.length = 0
              /\ ring_buffer'.index_r = 0
              /\ ring_buffer'.index_w = 0 ]_vars

\* the dispatcher has advanced after a pause that found commands behind it
\* in the queue and cleared them
C13_Witness ==
  /\ rb_log.op = "dispatch" /\ rb_log.was_empty
  /\ ev.op = "pause" /\ ~ev.rejected
  /\ m1125_saved_cmd_count > 0
  /\ ring_buffer.length = 0


\* C14: after every sequence of clear, enqueue and advance_r operations
\* from a cleared buffer, 0 <= length <= BUFSIZE, both indices are in
\* [0, BUFSIZE) and index_w = (index_r + length) mod BUFSIZE; and after a
\* clear the buffer is empty with length, index_r and index_w all 0,
\* whatever it held before.
C14_RingInvariant ==
  /\ ring_buffer.length \in 0 .. BUFSIZE
  /\ ring_buffer.index_r \in Slots
  /\ ring_buffer.index_w \in Slots
  /\ ring_buffer.index_w = (ring_buffer.index_r + ring_buffer.length) % BUFSIZE
  /\ rb_log.op = "clear"
       => /\ ring_buffer.length = 0
          /\ ring_buffer.index_r = 0
          /\ ring_buffer.index_w = 0

\* a clear has emptied a buffer that held commands across the wrap
C14_Witness ==
  /\ rb_log.op = "clear" /\ ~rb_log.was_empty
  /\ rb_log.n > BUFSIZE
  /\ ring_buffer.length = 0
  /\ \A i \in Slots : ring_buffer.commands[i].buffer # << >>


\* C15: an M1125 with neither P nor R, or with both, only reports the usage
\* line: pause-active, resume-pending, the saved position and commands, the
\* heater targets, the timers, PrintSource and the suppression tokens all
\* keep their values, whatever the state before.
C15_UsageOnly ==
  [][ Cmd_M1125_usage => (ev'.op = "usage" /\ UNCHANGED ProgramState) ]_vars

\* the usage line has been reported during a pause whose watchdog is staged
C15_Witness ==
  /\ ev.op = "usage"
  /\ m1125_pause_active
  /\ m1125_timeout_pending
  /\ m1125_have_saved_position


\* C16: an M1125 P that pauses a job whose source is not onboard media
\* invokes HostUI::pause as part of the pause; one that pauses a job from
\* onboard media does not.
C16_HostPauseHook ==
  (ev.op = "pause" /\ ~ev.rejected) => (ev.host_pause <=> ~obs.sd)

(***************************************************************************)
(* The host hooks: HostUI::action, pause, resume and start are called in   *)
(* any state of the controller, with or without a host on a serial port    *)
(***************************************************************************)
HostHooks == {"action", "pause", "resume", "start"}

HostApply(k, s) ==
  CASE k = "action" -> HostUI_action(s)
    [] k = "pause"  -> HostUI_pause(s)
    [] k = "resume" -> HostUI_resume(s)
    [] k = "start"  -> HostUI_start(s)

InitHost ==
  /\ InitController
  /\ NoMedia
  /\ NoFilterCall
  /\ NoRingCall
  /\ NoNotify
  /\ host_serial_connected \in BOOLEAN
  /\ now = 0
  /\ target_hotend = 200 /\ target_bed = 60
  /\ card \in InitCards
  /\ ring_buffer \in (IF Card_sd_printing(card) THEN InitQueues ELSE {EmptyRing})
  /\ current_position = PrintPosition
  /\ print_job_timer = "RUNNING"

\* UI code, SD handlers or the serial parser call one of the hooks
HookStep(k) ==
  Commit([HostApply(k, Start) EXCEPT !.ev.op = "host", !.ev.hook = k])

Host_hook == \E k \in HostHooks : HookStep(k)

\* a host opens or closes the serial port
Host_connect ==
  Commit([Start EXCEPT !.host_serial_connected = ~host_serial_connected])

\* the command dispatcher runs the injected "M1125 P"
Run_injected ==
  /\ injected_pending
  /\ m1125_pause_active \/ obs.episodes < MaxEpisodes
  /\ \E rd \in Readings :
       Commit(M1125([Start EXCEPT !.injected_pending = FALSE], TRUE, FALSE, 0, rd))

NextHost ==
  \/ Host_hook
  \/ Host_connect
  \/ Run_injected
  \/ Cmd_M1125_P
  \/ Cmd_M1125_R
  \/ Poll
  \/ Abort

SpecHost == InitHost /\ [][NextHost]_vars

\* C17: while PrintSource is SD, none of HostUI::action, pause, resume and
\* start emits a host action line, changes PrintSource or injects an
\* M1125 P; and a hook changes PrintSource only to HOST and only while a
\* host serial connection exists.
C17_SdSilencesHost ==
  [][ \A k \in HostHooks :
        HookStep(k) =>
          /\ print_source = "SD"
               => /\ ev'.action_lines = 0
                  /\ ~ev'.injected
                  /\ injected_pending' = injected_pending
                  /\ print_source' = "SD"
          /\ print_source' # print_source
               => (print_source' = "HOST" /\ host_serial_connected) ]_vars

\* HostUI::pause has been called during an SD pause with a host connected
C17_Witness ==
  /\ ev.op = "host" /\ ev.hook = "pause" /\ ev.host_pause
  /\ print_source = "SD"
  /\ host_serial_connected
  /\ m1125_pause_active
  /\ ev.action_lines = 0


(***************************************************************************)
(* The media state machine on its own: the reading, the mount outcome and  *)
(* the UI's presence change between polls of manage_media                  *)
(***************************************************************************)
MediaLevels == {INSERT_NONE, INSERT_MEDIA, INSERT_SD, INSERT_USB}

InitMedia ==
  /\ InitController
  /\ NoFilterCall
  /\ NoRingCall
  /\ NoNotify
  /\ NoHost
  /\ mock_card = InitMockCard
  /\ mock_ui = InitMockUI
  /\ prev_stat = MEDIA_BOOT
  /\ media_obs = InitMediaObs
  /\ now = 0
  /\ target_hotend = 200 /\ target_bed = 60
  /\ card = [fileOpen |-> FALSE, sdprinting |-> FALSE, sdpos |-> 0]
  /\ ring_buffer = EmptyRing
  /\ current_position = PrintPosition
  /\ print_job_timer = "RUNNING"

MediaFrame ==
  UNCHANGED << ProgramState, filter_cmd, filter_skip, rb_log, notifyVars,
               ev, obs >>

\* how the machine will see the new reading
EdgeKind(level) ==
  IF level = prev_stat THEN "same"
  ELSE IF prev_stat = MEDIA_BOOT THEN "boot"
  ELSE IF level > prev_stat THEN "insertion"
  ELSE "removal"

\* mock_card.insertion_state = level;
Media_set_insertion ==
  \E level \in MediaLevels \ {mock_card.insertion_state} :
    /\ media_obs.changes < MaxMediaChanges
    /\ mock_card' = [mock_card EXCEPT !.insertion_state = level]
    /\ media_obs' = [ changes |-> media_obs.changes + 1,
                      kind |-> EdgeKind(level),
                      was_mounted |-> mock_card.mounted,
                      polls |-> 0, ready_polls |-> 0,
                      mounts |-> 0, removals |-> 0,
                      failed |-> IF level < mock_card.insertion_state
                                   THEN FALSE ELSE media_obs.failed,
                      retried |-> media_obs.retried,
                      late |-> FALSE ]
    /\ UNCHANGED << mock_ui, prev_stat >>
    /\ MediaFrame

\* mock_card.mount_will_succeed = ...;
Media_set_mount_outcome ==
  /\ mock_card' = [mock_card EXCEPT !.mount_will_succeed = ~@]
  /\ UNCHANGED << mock_ui, prev_stat, media_obs >>
  /\ MediaFrame

\* mock_card.ui_detected = ...;
Media_set_ui ==
  /\ mock_card' = [mock_card EXCEPT !.ui_detected = ~@]
  /\ UNCHANGED << mock_ui, prev_stat, media_obs >>
  /\ MediaFrame

\* mock_card.flags.sdprinting = true;  or  flags.pending_print_start = true;
Media_start_print ==
  /\ mock_card.mounted
  /\ ~mock_card.sdprinting /\ ~mock_card.pending_print_start
  /\ \E pending \in BOOLEAN :
       mock_card' = IF pending
                      THEN [mock_card EXCEPT !.pending_print_start = TRUE]
                      ELSE [mock_card EXCEPT !.sdprinting = TRUE]
  /\ UNCHANGED << mock_ui, prev_stat, media_obs >>
  /\ MediaFrame

MediaNow == [card |-> mock_card, ui |-> mock_ui, prev_stat |-> prev_stat]

\* what a poll leaves in the media variables
MediaPolled ==
  /\ media_obs.polls < MaxMediaPolls
  /\ LET m1 == manage_media_simplified(MediaNow)
     IN  /\ mock_card' = m1.card
         /\ mock_ui' = m1.ui
         /\ prev_stat' = m1.prev_stat
         /\ media_obs' =
              [ media_obs EXCEPT
                  !.polls = @ + 1,
                  !.ready_polls = IF mock_card.ui_detected THEN @ + 1 ELSE @,
                  !.mounts = @ + (m1.card.mount_call_count
                                    - mock_card.mount_call_count),
                  !.removals = @ + (m1.ui.message_count
                                      - mock_ui.message_count),
                  !.failed =
                     IF m1.card.release_call_count # mock_card.release_call_count
                       THEN FALSE
                     ELSE IF m1.card.mount_call_count # mock_card.mount_call_count
                       THEN ~m1.card.mounted
                     ELSE @,
                  !.late =
                     @ \/ (/\ mock_card.ui_detected
                           /\ mock_card.insertion_state # prev_stat
                           /\ media_obs.polls > media_obs.ready_polls),
                  !.retried =
                     @ \/ (media_obs.failed
                             /\ m1.card.mount_call_count
                                   # mock_card.mount_call_count) ]

\* manage_media_simplified();
Media_poll ==
  /\ MediaPolled
  /\ MediaFrame

NextMedia ==
  \/ Media_set_insertion
  \/ Media_set_mount_outcome
  \/ Media_set_ui
  \/ Media_start_print
  \/ Media_poll

SpecMedia == InitMedia /\ [][NextMedia]_vars


\* C18 as stated: once polled, a removal has produced exactly one removal
\* notification and an insertion exactly one mount attempt, however many
\* polls there were.
C18_AsStated ==
  media_obs.polls >= 1 =>
    /\ media_obs.kind = "removal" => media_obs.removals = 1
    /\ media_obs.kind = "insertion" => media_obs.mounts = 1

\* C18 amended: a poll whose reading equals the previously observed reading
\* changes nothing (no mount, release, abort or notification).  However
\* many polls follow a change of the reading, a removal produces one removal
\* notification and an insertion of media that is not mounted one mount
\* attempt, both at the first poll that finds the UI detected and none
\* before it; an insertion that finds the media mounted produces no mount
\* attempt.
C18_MediaDedup ==
  /\ [][ (Media_poll /\ mock_card.insertion_state = prev_stat)
           => UNCHANGED << mock_card, mock_ui, prev_stat >> ]_vars
  /\ [] ( /\ media_obs.kind = "removal"
               => /\ media_obs.removals = IF media_obs.ready_polls >= 1 THEN 1 ELSE 0
                  /\ media_obs.mounts = 0
          /\ media_obs.kind = "insertion"
               => /\ media_obs.mounts =
                       IF media_obs.ready_polls >= 1 /\ ~media_obs.was_mounted
                         THEN 1 ELSE 0
                  /\ media_obs.removals = 0
          /\ media_obs.kind = "same"
               => media_obs.mounts = 0 /\ media_obs.removals = 0 )

\* three polls after a removal, and one removal notification
C18_Witness ==
  /\ media_obs.kind = "removal"
  /\ media_obs.polls = MaxMediaPolls
  /\ media_obs.ready_polls = MaxMediaPolls
  /\ media_obs.removals = 1
  /\ mock_card.release_call_count >= 1
  /\ mock_ui.last_message_was_removed


\* C19: the poll that takes the machine away from the MEDIA_BOOT reading
\* never calls mount, also when media is present, and never yields a removal
\* notification; mount is called only by a poll whose previously observed
\* reading is a real level below the current reading.
C19_BootSentinel ==
  [][ Media_poll =>
        /\ (prev_stat = MEDIA_BOOT /\ prev_stat' # MEDIA_BOOT)
             => /\ mock_card'.mount_call_count = mock_card.mount_call_count
                /\ mock_card'.mounted = mock_card.mounted
                /\ mock_ui'.message_count = mock_ui.message_count
                /\ ~mock_ui'.last_message_was_removed
        /\ mock_card'.mount_call_count # mock_card.mount_call_count
             => /\ prev_stat > MEDIA_BOOT
                /\ prev_stat < mock_card.insertion_state ]_vars

\* the machine has left the boot reading with media present and not mounted it
C19_Witness ==
  /\ mock_ui.last_old_status = MEDIA_BOOT
  /\ mock_ui.media_changed_calls = 1
  /\ prev_stat \in {INSERT_MEDIA, INSERT_SD, INSERT_USB}
  /\ mock_card.insertion_state = prev_stat
  /\ mock_card.mount_call_count = 0
  /\ ~mock_card.mounted
  /\ mock_ui.message_count = 0


\* C20 as stated: after a mount attempt that failed, no further mount
\* attempt is made until the media has been removed.
C20_AsStated == ~media_obs.retried

\* C20 amended: the poll that handles an insertion edge (UI detected,
\* previously observed reading a real level below the reading) with the
\* media not mounted attempts the mount exactly once.  If it succeeds the
\* mounted flag is true and the notification reports the new level; if it
\* fails the mounted flag stays false and the level reported to the UI is
\* the prior level.  No further attempt is made while the reading stays as
\* it is; the next attempt takes another insertion edge, which a reading
\* that rises to a higher level is, also without a removal.
C20_MountOnce ==
  /\ [][ (/\ Media_poll
          /\ mock_card.ui_detected
          /\ prev_stat > MEDIA_BOOT
          /\ mock_card.insertion_state > prev_stat
          /\ ~mock_card.mounted)
           => /\ mock_card'.mount_call_count = mock_card.mount_call_count + 1
              /\ mock_ui'.media_changed_calls = mock_ui.media_changed_calls + 1
              /\ mock_ui'.last_old_status = prev_stat
              /\ IF mock_card.mount_will_succeed
                   THEN /\ mock_card'.mounted
                        /\ mock_ui'.last_new_status = mock_card.insertion_state
                   ELSE /\ ~mock_card'.mounted
                        /\ mock_ui'.last_new_status = prev_stat ]_vars
  /\ [][ (Media_poll /\ mock_card'.mount_call_count # mock_card.mount_call_count)
           => mock_card.insertion_state > prev_stat ]_vars
  /\ [] (media_obs.mounts <= 1)

\* a mount has failed on an insertion edge, the UI was told the prior level,
\* and the polls that followed did not try again
C20_Witness ==
  /\ media_obs.kind = "insertion" /\ media_obs.failed
  /\ media_obs.polls = MaxMediaPolls
  /\ media_obs.mounts = 1
  /\ ~mock_card.mounted
  /\ mock_card.insertion_state # INSERT_NONE
  /\ prev_stat = mock_card.insertion_state
  /\ mock_ui.last_new_status = mock_ui.last_old_status
  /\ mock_ui.last_old_status = INSERT_NONE


\* the poll handles a removal: the UI is detected and the reading is below
\* the real level observed before
RemovalEdge ==
  /\ mock_card.ui_detected
  /\ prev_stat > MEDIA_BOOT
  /\ mock_card.insertion_state < prev_stat

\* C21: on a removal edge release is called exactly once, and by no other
\* poll.  If a print is active or a print start is pending, the abort runs
\* once, clears both flags and sets the abort flag while the media is still
\* flagged mounted; if neither holds there is no abort.  After the release
\* the media is not mounted.
C21_RemovalHandling ==
  [][ Media_poll =>
        IF RemovalEdge
          THEN /\ mock_card'.release_call_count = mock_card.release_call_count + 1
               /\ ~mock_card'.mounted
               /\ IF mock_card.sdprinting \/ mock_card.pending_print_start
                    THEN /\ mock_card'.abort_call_count = mock_card.abort_call_count + 1
                         /\ ~mock_card'.sdprinting
                         /\ ~mock_card'.pending_print_start
                         /\ mock_card'.abort_sd_printing
                         /\ mock_card'.abort_saw_mounted = mock_card.mounted
                    ELSE /\ mock_card'.abort_call_count = mock_card.abort_call_count
                         /\ mock_card'.abort_sd_printing = mock_card.abort_sd_printing
          ELSE /\ mock_card'.release_call_count = mock_card.release_call_count
               /\ mock_card'.abort_call_count = mock_card.abort_call_count ]_vars

\* the media was pulled during a print: one release, one abort that ran
\* while the media was mounted, and the media is no longer mounted
C21_Witness ==
  /\ media_obs.kind = "removal" /\ media_obs.polls = MaxMediaPolls
  /\ mock_card.release_call_count = 1
  /\ mock_card.abort_call_count = 1
  /\ mock_card.abort_sd_printing /\ mock_card.abort_saw_mounted
  /\ ~mock_card.sdprinting /\ ~mock_card.mounted


\* C22: a poll that finds the reading changed while the UI is not detected
\* mounts nothing, releases nothing, notifies nothing and leaves the
\* previously observed reading as it was; the first later poll that finds
\* the UI detected and the reading still different processes the transition:
\* one notification, the reading recorded, mount called exactly on an
\* insertion edge of media not mounted and release exactly on a removal edge.
C22_UiNotReady ==
  [][ Media_poll =>
        /\ ~mock_card.ui_detected
             => UNCHANGED << mock_card, mock_ui, prev_stat >>
        /\ (mock_card.ui_detected /\ mock_card.insertion_state # prev_stat)
             => /\ mock_ui'.media_changed_calls = mock_ui.media_changed_calls + 1
                /\ prev_stat' = mock_card.insertion_state
                /\ (mock_card'.mount_call_count = mock_card.mount_call_count + 1)
                     <=> (/\ prev_stat > MEDIA_BOOT
                          /\ mock_card.insertion_state > prev_stat
                          /\ ~mock_card.mounted)
                /\ (mock_card'.release_call_count = mock_card.release_call_count + 1)
                     <=> RemovalEdge ]_vars

\* an insertion seen first without the UI was mounted and notified by a
\* later poll
C22_Witness ==
  /\ media_obs.late
  /\ media_obs.kind = "insertion"
  /\ media_obs.mounts = 1
  /\ media_obs.polls > media_obs.ready_polls
  /\ mock_card.mounted
  /\ prev_stat = mock_card.insertion_state
  /\ mock_ui.last_new_status = mock_card.insertion_state


(***************************************************************************)
(* The notification cache on its own: notifications are stored, M117       *)
(* texts are judged, and time passes between the calls                     *)
(***************************************************************************)
NotifyTickMs == 2500
MaxNotifyTicks == 4
MaxSuppressed == 2

\* texts that differ in case or in trailing whitespace only, and no text
NotifyTexts ==
  {Msg("Layer 5"), Msg("layer 5"), Msg("Layer 5 "), Msg(""), NullMsg}

InitNotify ==
  /\ InitController
  /\ NoFilterCall
  /\ NoRingCall
  /\ NoHost
  /\ NoMedia
  /\ hostui_last_notification = ""
  /\ hostui_last_notification_ms = 0
  /\ m117_obs = InitM117Obs
  /\ now = 0
  /\ target_hotend = 200 /\ target_bed = 60
  /\ card = [fileOpen |-> FALSE, sdprinting |-> FALSE, sdpos |-> 0]
  /\ ring_buffer = EmptyRing
  /\ current_position = PrintPosition
  /\ print_job_timer = "RUNNING"

NotifyCache ==
  [text |-> hostui_last_notification, ms |-> hostui_last_notification_ms]

NotifyFrame ==
  UNCHANGED << filter_cmd, filter_skip, rb_log, mediaVars >>

\* millis() advances
Notify_tick ==
  /\ now < MaxNotifyTicks * NotifyTickMs
  /\ CommitProgram([Cur EXCEPT !.now = now + NotifyTickMs])
  /\ NotifyFrame
  /\ UNCHANGED << hostui_last_notification, hostui_last_notification_ms >>
  /\ m117_obs' = [m117_obs EXCEPT !.op = "tick"]

\* HostUI::notify(message) stores the text
NotifyStep(message) ==
  LET c == hostui_store_notification(NotifyCache, message, now) IN
  /\ CommitProgram(Cur)
  /\ NotifyFrame
  /\ hostui_last_notification' = c.text
  /\ hostui_last_notification_ms' = c.ms
  /\ m117_obs' = [ op |-> "notify", text |-> message, ret |-> FALSE,
                   stored |-> IF NoText(message) THEN "" ELSE message.s,
                   suppressed |-> 0 ]

Host_notify == \E message \in NotifyTexts : NotifyStep(message)

\* M117 asks whether its text repeats the stored notification
M117Step(message) ==
  LET r == should_suppress_m117(NotifyCache, message, now) IN
  /\ m117_obs.suppressed < MaxSuppressed
  /\ CommitProgram(Cur)
  /\ NotifyFrame
  /\ hostui_last_notification' = r.cache.text
  /\ hostui_last_notification_ms' = r.cache.ms
  /\ m117_obs' = [m117_obs EXCEPT
                    !.op = "m117", !.text = message, !.ret = r.ret,
                    !.suppressed = IF r.ret THEN @ + 1 ELSE @]

Host_M117 == \E message \in NotifyTexts : M117Step(message)

NextNotify ==
  \/ Notify_tick
  \/ Host_notify
  \/ Host_M117

SpecNotify == InitNotify /\ [][NextNotify]_vars

\* C23: after a notification with text S was stored, an M117 is suppressed
\* exactly when its text is not empty and equals S, the second and later
\* repeats included; with no notification stored it is never suppressed.
C23_M117Suppression ==
  m117_obs.op = "m117"
    => (m117_obs.ret <=> (/\ ~NoText(m117_obs.text)
                          /\ m117_obs.stored # ""
                          /\ m117_obs.text.s = m117_obs.stored))


(***************************************************************************)
(* The media state machine together with the pause controller: the card    *)
(* reader's print-active flag is the controller's card, and the reader's   *)
(* abort calls the controller's abort                                      *)
(***************************************************************************)
InitUnwind ==
  /\ InitController
  /\ NoFilterCall
  /\ NoRingCall
  /\ NoNotify
  /\ NoHost
  /\ NoMedia
  /\ now = 0
  /\ target_hotend = 200 /\ target_bed = 60
  /\ card = [fileOpen |-> FALSE, sdprinting |-> FALSE, sdpos |-> 0]
  /\ ring_buffer = EmptyRing
  /\ current_position = PrintPosition
  /\ print_job_timer = "RUNNING"

\* the controller's step s, seen by the card reader
UnwindCommit(s) ==
  /\ CommitProgram(s)
  /\ mock_card' = [mock_card EXCEPT !.sdprinting = Card_sd_printing(s.card)]
  /\ UNCHANGED << filter_cmd, filter_skip, rb_log, notifyVars,
                  mock_ui, prev_stat, media_obs >>

\* a file on the mounted media starts printing
Unwind_start_print ==
  /\ mock_card.mounted
  /\ ~Card_sd_printing(card)
  /\ ~m1125_pause_active
  /\ \E q \in InitQueues :
       UnwindCommit([Start EXCEPT
                       !.card = [fileOpen |-> TRUE, sdprinting |-> TRUE,
                                 sdpos |-> 7],
                       !.ring_buffer = q,
                       !.print_source = "SD",
                       !.ev.op = "start"])

Unwind_M1125_P ==
  /\ m1125_pause_active \/ obs.episodes < MaxEpisodes
  /\ \E rd \in Readings : UnwindCommit(M1125(Start, TRUE, FALSE, 0, rd))

Unwind_M1125_R ==
  \E rd \in Readings : UnwindCommit(M1125(Start, FALSE, TRUE, 0, rd))

\* the UI loop polls the controller
Unwind_poll_controller ==
  \E rd \in Readings :
    UnwindCommit(M1125_CheckAndHandleHeaterTimeout(Start, rd))

\* the card reader's abort: the print-active flag is cleared and the
\* controller's abort is called
UnwindAbort(s) ==
  M1125_AbortPause([s EXCEPT !.card.sdprinting = FALSE])

\* the main loop polls the media state machine
Unwind_poll_media ==
  /\ MediaPolled
  /\ CommitProgram(
       IF manage_media_simplified(MediaNow).card.abort_call_count
            # mock_card.abort_call_count
         THEN UnwindAbort(Start)
         ELSE [Start EXCEPT !.ev.op = "media"])
  /\ UNCHANGED << filter_cmd, filter_skip, rb_log, notifyVars >>

NextUnwind ==
  \/ Media_set_insertion
  \/ Unwind_start_print
  \/ Unwind_M1125_P
  \/ Unwind_M1125_R
  \/ Unwind_poll_controller
  \/ Unwind_poll_media

SpecUnwind == InitUnwind /\ [][NextUnwind]_vars

\* C24: when a poll of the media state machine sees the media removed while
\* a print from the media is printing or is paused by M1125, the pause is
\* neither active nor waiting to resume afterwards.
C24_RemovalUnwindsPause ==
  [][ ( /\ Unwind_poll_media
        /\ RemovalEdge
        /\ mock_card.insertion_state = INSERT_NONE
        /\ \/ Card_sd_printing(card)
           \/ (m1125_pause_active /\ print_source = "SD") )
        => (~m1125_pause_active' /\ ~m1125_resume_pending') ]_vars


(***************************************************************************)
(* Resume, Continue and abort against the watchdog                         *)
(***************************************************************************)
\* C25: a resume request accepted during a pause re-applies every saved
\* target above zero, and from the request on no grace window that was
\* pending before it disables the heaters while the resume is waiting.
C25_ResumeRearms ==
  [][ /\ (m1125_pause_active /\ ev'.op = "resume")
           => /\ (m1125_saved_target_hotend > 0 /\ ~ev'.finalized /\ ~ev'.disabled)
                    => target_hotend' = m1125_saved_target_hotend
              /\ ~ev'.disabled
      /\ (m1125_pause_active /\ m1125_resume_pending /\ obs.resumed)
           => ~ev'.disabled ]_vars


\* C26: the finalization of a resume requested in the episode leaves no heater-timeout state behind (no grace
\* window pending, no disabled guard, no running timer), and in an episode
\* that follows a finalized one the prompt is posted no earlier than T after
\* that episode's pause and the heaters are disabled only after a prompt of
\* that episode and its grace window.
C26_WatchdogStatePerEpisode ==
  /\ (ev.finalized /\ obs.resumed)
       => /\ ~m1125_timeout_pending
          /\ ~m1125_heaters_disabled_by_timeout
          /\ ~m1125_local_hotend_idle.active
          /\ ~m1125_local_bed_idle.active
  /\ (obs.episodes >= 2 /\ m1125_pause_active)
       => /\ ev.prompt => now >= obs.pause_time + IdleTimeoutMs
          /\ ev.disabled => /\ obs.prompts >= 1
                            /\ now >= obs.prompt_time + GraceMs


(***************************************************************************)
(* The watchdog past the first disable: the clock steps through the        *)
(* instants of a prompt, a disable, a recovery and the prompt and disable  *)
(* that can follow it                                                      *)
(***************************************************************************)
RecoveryInstants ==
  << 0, 300000, 330000, 629000, 630000, 660000 >>

RecoveryTick ==
  \E i \in 1 .. (Len(RecoveryInstants) - 1) :
    /\ now = RecoveryInstants[i]
    /\ Commit([Start EXCEPT !.now = RecoveryInstants[i + 1]])

NextRecovery ==
  \/ RecoveryTick
  \/ SetTarget
  \/ Cmd_M1125_P
  \/ Cmd_M1125_R
  \/ Poll
  \/ TimeoutConfirm
  \/ Abort

SpecRecovery == InitScenario /\ [][NextRecovery]_vars

\* the watchdog has disabled the heaters and no grace window is pending
WatchdogDisabled ==
  m1125_heaters_disabled_by_timeout /\ ~m1125_timeout_pending

\* the targets in force when the disable branch runs: a resume request
\* re-applies the saved targets before its own poll
LiveHotendAtPoll ==
  IF ev'.op = "resume" /\ m1125_saved_target_hotend > 0
    THEN m1125_saved_target_hotend ELSE target_hotend
LiveBedAtPoll ==
  IF ev'.op = "resume" /\ m1125_saved_target_bed > 0
    THEN m1125_saved_target_bed ELSE target_bed

\* C27: the disable saves the targets live just before it, and they stay
\* saved while the heaters are disabled; Continue pressed then re-applies
\* every saved target above zero, clears the disabled guard and restarts
\* both idle timers with a full T; after such a recovery the heaters are
\* disabled again only after a prompt posted T or more after the recovery
\* and that prompt's grace window.
C27_RecoveryFromDisabled ==
  /\ [][ (ev'.disabled /\ ~ev'.finalized)
           => /\ m1125_saved_target_hotend' = LiveHotendAtPoll
              /\ m1125_saved_target_bed' = LiveBedAtPoll
              /\ target_hotend' = 0 /\ target_bed' = 0 ]_vars
  /\ [][ (m1125_heaters_disabled_by_timeout
            /\ m1125_heaters_disabled_by_timeout')
           => UNCHANGED << m1125_saved_target_hotend,
                           m1125_saved_target_bed >> ]_vars
  /\ [][ (WatchdogDisabled /\ ev'.op = "continue")
           => /\ target_hotend' = IF m1125_saved_target_hotend > 0
                                    THEN m1125_saved_target_hotend
                                    ELSE target_hotend
              /\ target_bed' = IF m1125_saved_target_bed > 0
                                 THEN m1125_saved_target_bed
                                 ELSE target_bed
              /\ ~m1125_heaters_disabled_by_timeout'
              /\ ~m1125_timeout_pending'
              /\ m1125_local_hotend_idle' = Timer_start(now, IdleTimeoutMs)
              /\ m1125_local_bed_idle' = Timer_start(now, IdleTimeoutMs) ]_vars
  /\ [] ( (ev.disabled /\ obs.recover_time >= 0)
            => /\ obs.prompts >= 1
               /\ obs.prompt_time >= obs.recover_time + IdleTimeoutMs
               /\ now >= obs.prompt_time + GraceMs )

\* the heaters were disabled, Continue recovered them with the target the
\* user had left in force, and a second prompt and a second disable followed
C27_Witness ==
  /\ ev.disabled
  /\ obs.disables = 2 /\ obs.prompts = 2
  /\ obs.recover_time = 330000
  /\ obs.prompt_time >= 630000
  /\ m1125_pause_active /\ m1125_heaters_disabled_by_timeout
  /\ m1125_saved_target_hotend = 200


\* C28: Continue pressed while the grace window is pending changes no live
\* heater target.
C28_ContinueKeepsTargets ==
  [][ (m1125_pause_active /\ m1125_timeout_pending /\ ev'.op = "continue")
        => UNCHANGED << target_hotend, target_bed >> ]_vars


\* C29: M1125_AbortPause changes no heater target, whether the heaters are
\* on or were disabled by the timeout, and it moves nothing: the position
\* stays where it is and no return move is made.
C29_AbortLeavesHeaters ==
  [][ ev'.op = "abort"
        => /\ UNCHANGED << target_hotend, target_bed, current_position >>
           /\ ~ev'.moved /\ ~ev'.disabled
           /\ obs'.moves = obs.moves ]_vars

\* an abort of a pause whose heaters the timeout had disabled: they stay off
\* and the toolhead stays parked
C29_Witness ==
  /\ ev.op = "abort"
  /\ obs.disables >= 1
  /\ target_hotend = 0 /\ target_bed = 0
  /\ current_position # PrintPosition
  /\ ~m1125_pause_active /\ ~m1125_heaters_disabled_by_timeout

\* C30: PrintSource is SD or HOST after a pause is entered, according to
\* whether an SD file was open and printing, and it is NONE after
\* M1125_AbortPause.
C30_PrintSourceLifecycle ==
  /\ (ev.op = "pause" /\ ~ev.rejected)
       => print_source = (IF obs.sd THEN "SD" ELSE "HOST")
  /\ ev.op = "abort" => print_source = "NONE"


(***************************************************************************)
(* Resume finalization: routing, position, capacity                        *)
(***************************************************************************)
\* C31: the routing flags are never both true, and at finalization they
\* equal the PrintSource recorded by the pause that opened the episode: to
\* media exactly when that pause found an SD file open and printing, to the
\* host otherwise; a host-routed finalization re-inserts no saved command.
C31_ResumeRouting ==
  /\ ~(m1125_resume_do_sd /\ m1125_resume_do_host)
  /\ ev.finalized
       => /\ m1125_resume_do_sd = (obs.episodes >= 1 /\ obs.sd)
          /\ m1125_resume_do_host = (obs.episodes >= 1 /\ ~obs.sd)
          /\ m1125_resume_do_host => ev.reinserted = 0


\* C32: a finalization makes the return move exactly when the saved
\* position is valid, and nothing else makes it; the move goes to the saved
\* X, Y and Z, and E becomes the saved E for a resume routed to the media and
\* stays as it is otherwise; after the finalization the saved position is
\* not valid.
C32_FinalizePosition ==
  /\ [][ ev'.finalized
           => /\ ev'.moved = m1125_have_saved_position
              /\ ~m1125_have_saved_position'
              /\ ~m1125_have_saved_position
                   => current_position' = current_position
              /\ m1125_have_saved_position
                   => /\ current_position'.x = m1125_saved_position.x
                      /\ current_position'.y = m1125_saved_position.y
                      /\ current_position'.z = m1125_saved_position.z
                      /\ current_position'.e =
                           IF m1125_resume_do_sd' THEN m1125_saved_position.e
                           ELSE current_position.e ]_vars
  /\ [][ ev'.moved => (ev'.finalized /\ m1125_have_saved_position) ]_vars

\* a host resume was finalized: the toolhead is back at the printing X, Y
\* and Z and E is where the retract of the pause left it
C32_Witness ==
  /\ ev.finalized /\ ev.moved /\ obs.resumed
  /\ m1125_resume_do_host /\ ~m1125_resume_do_sd
  /\ ~m1125_have_saved_position
  /\ current_position.x = PrintPosition.x
  /\ current_position.z = PrintPosition.z
  /\ current_position.e # PrintPosition.e

\* the same for a resume routed to the media: E is the saved E
C32_WitnessSd ==
  /\ ev.finalized /\ ev.moved /\ obs.resumed
  /\ m1125_resume_do_sd
  /\ current_position = PrintPosition


\* the first n saved commands as a sequence
SavedSeq(cmds, n) == [i \in 1 .. n |-> cmds[i - 1]]

RefillInputs ==
  (UNION { [1 .. k -> {Line(Str_G1X5), Line(Str_M600)}] : k \in 0 .. 2 })
    \cup FullQueues

InitRefill ==
  /\ InitController
  /\ NoMedia
  /\ NoHost
  /\ NoFilterCall
  /\ NoRingCall
  /\ NoNotify
  /\ now = 0
  /\ target_hotend = 200 /\ target_bed = 60
  /\ card = [fileOpen |-> TRUE, sdprinting |-> TRUE, sdpos |-> 7]
  /\ ring_buffer \in { RingOf(q, r) : q \in RefillInputs, r \in {0, BUFSIZE - 1} }
  /\ current_position = PrintPosition
  /\ print_job_timer = "RUNNING"

\* a command from the serial port or the UI is queued while the print is
\* paused
Refill_enqueue ==
  /\ m1125_pause_active
  /\ RB_enqueue_ok(ring_buffer, Str_G28)
  /\ Commit([Start EXCEPT !.ring_buffer = RB_enqueue(ring_buffer, Str_G28, TRUE),
                          !.ev.op = "enqueue"])

NextRefill ==
  \/ Cmd_M1125_P
  \/ Cmd_M1125_R
  \/ Poll
  \/ Refill_enqueue

SpecRefill == InitRefill /\ [][NextRefill]_vars

\* C34: whatever the number of preserved commands and of commands queued
\* during the pause, the ring buffer never holds more than BUFSIZE commands,
\* the finalization that writes the preserved commands back included.
C34_ReinsertWithinCapacity == ring_buffer.length <= BUFSIZE


(***************************************************************************)
(* M1125_TimeoutRemainingSeconds on its own: the pending flag, the         *)
(* deadline and the clock are drawn from sets around the second            *)
(* boundaries, and the UI asks for the remaining seconds                   *)
(***************************************************************************)
RemainingDeadlines == {0, 1, 999, 1000, 1001, 330000, 630000}
RemainingNows == {0, 1, 2, 1000, 329000, 329001, 329999, 330000, 330001}

InitRemaining ==
  /\ NoMedia
  /\ NoHost
  /\ NoFilterCall
  /\ NoRingCall
  /\ NoNotify
  /\ m1125_saved_position = [x |-> 0, y |-> 0, z |-> 0, e |-> 0]
  /\ m1125_have_saved_position = FALSE
  /\ m1125_pause_active = TRUE
  /\ m1125_heaters_disabled_by_timeout = FALSE
  /\ m1125_timeout_pending \in BOOLEAN
  /\ m1125_timeout_deadline_ms \in RemainingDeadlines
  /\ m1125_timeout_old_remaining_at_continue = 0
  /\ m1125_continue_pressed = FALSE
  /\ m1125_resume_pending = FALSE
  /\ m1125_resume_do_sd = FALSE
  /\ m1125_resume_do_host = FALSE
  /\ m1125_resume_feedrate_mm_s = DefaultResumeFeedrate
  /\ m1125_suppress_auto_job_timer = TRUE
  /\ m1125_saved_commands = EmptyCommands
  /\ m1125_saved_cmd_count = 0
  /\ m1125_local_hotend_idle = Timer_reset
  /\ m1125_local_bed_idle = Timer_reset
  /\ m1125_saved_target_hotend = 200
  /\ m1125_saved_target_bed = 60
  /\ print_source = "HOST"
  /\ suppress_popup_pause_response = TRUE
  /\ wait_for_user = FALSE
  /\ injected_pending = FALSE
  /\ ev = NoEvent
  /\ obs = InitObs
  /\ now \in RemainingNows
  /\ target_hotend = 200 /\ target_bed = 60
  /\ card = [fileOpen |-> FALSE, sdprinting |-> FALSE, sdpos |-> 0]
  /\ ring_buffer = EmptyRing
  /\ current_position = PrintPosition
  /\ print_job_timer = "PAUSED"

\* the DGUS screen asks for the seconds to show
Remaining_call ==
  /\ ev.op # "remaining"
  /\ Commit([Start EXCEPT !.ev.op = "remaining",
                          !.ev.remaining = M1125_TimeoutRemainingSeconds(Start)])

NextRemaining == Remaining_call

SpecRemaining == InitRemaining /\ [][NextRemaining]_vars

\* the least whole number of thousands that is not below ms
CeilSeconds(ms) == CHOOSE q \in 0 .. 1000 : q * 1000 >= ms /\ (q - 1) * 1000 < ms

\* C35: the remaining seconds are 0 when no grace window is pending or the
\* deadline is not in the future, and otherwise the milliseconds to the
\* deadline divided by 1000 and rounded up.
C35_RemainingSeconds ==
  ev.op = "remaining"
    => ev.remaining =
         IF m1125_timeout_pending /\ m1125_timeout_deadline_ms > now
           THEN CeilSeconds(m1125_timeout_deadline_ms - now)
           ELSE 0

\* one millisecond short of the deadline counts as a whole second
C35_Witness ==
  /\ ev.op = "remaining"
  /\ m1125_timeout_pending
  /\ m1125_timeout_deadline_ms = 330000 /\ now = 329001
  /\ ev.remaining = 1


(***************************************************************************)
(* Suppression tokens and the life of an episode                           *)
(***************************************************************************)
\* C36: between operations the auto-job-timer suppression is engaged
\* exactly while an M1125 pause is active; it is engaged by an accepted
\* pause only and released by a finalization or an abort only; an accepted
\* pause engages the popup-response suppression too, and both a
\* finalization and an abort release both.
C36_SuppressionTokens ==
  /\ [] (m1125_suppress_auto_job_timer <=> m1125_pause_active)
  /\ [][ /\ (~m1125_suppress_auto_job_timer /\ m1125_suppress_auto_job_timer')
              => (ev'.op = "pause" /\ ~ev'.rejected)
         /\ (m1125_suppress_auto_job_timer /\ ~m1125_suppress_auto_job_timer')
              => (ev'.finalized \/ ev'.op = "abort")
         /\ (ev'.op = "pause" /\ ~ev'.rejected)
              => (m1125_suppress_auto_job_timer' /\ suppress_popup_pause_response')
         /\ (ev'.finalized \/ ev'.op = "abort")
              => (~m1125_suppress_auto_job_timer'
                    /\ ~suppress_popup_pause_response') ]_vars

\* a pause that had engaged both tokens was resumed and finalized by a poll
C36_Witness ==
  /\ ev.finalized /\ ev.op = "none"
  /\ obs.episodes >= 1 /\ obs.resumed
  /\ ~m1125_pause_active
  /\ ~m1125_suppress_auto_job_timer
  /\ ~suppress_popup_pause_response


\* C37: a pause is finalized only after a resume request that was accepted
\* after that pause; a pause followed by polls only stays active.
C37_FinalizeNeedsResume ==
  (ev.finalized /\ obs.episodes >= 1) => obs.resumed

(***************************************************************************)
(* A pending resume under a controller that keeps being polled while the   *)
(* heaters settle at their live targets                                    *)
(***************************************************************************)
\* what a heater that has no target reads once it has cooled down
AmbientTemp == 25

\* thermalManager.wholeDegHotend(e) / wholeDegBed() of heaters that have
\* converged to thermalManager's live targets
ConvergedReading ==
  [ hotend |-> IF target_hotend > 0 THEN target_hotend ELSE AmbientTemp,
    bed    |-> IF target_bed > 0 THEN target_bed ELSE AmbientTemp ]

\* the UI loop's poll at a moment when the heaters have converged
Resume_poll ==
  Commit(M1125_CheckAndHandleHeaterTimeout(Start, ConvergedReading))

NextResume ==
  \/ Tick
  \/ Cmd_M1125_P
  \/ Cmd_M1125_R
  \/ Poll
  \/ Resume_poll

\* the UI loop runs for as long as the firmware does, so a poll that can
\* change something is eventually made
SpecResume == InitScenario /\ [][NextResume]_vars /\ WF_vars(Resume_poll)

\* C38: once M1125 R has been accepted during a pause, and the controller
\* keeps being polled with the heaters converged to their live targets, the
\* pause is eventually finalized (pause-active becomes false).
C38_ResumeCompletes ==
  (m1125_pause_active /\ m1125_resume_pending /\ obs.resumed)
    ~> ~m1125_pause_active

\* C39: the UI receives a notification that reads as a removal (old level
\* above boot, new level below the old level) only if the most recent earlier
\* notification reported media as present.
C39_RemovalMatchesInsertion ==
  [][ (/\ mock_ui'.media_changed_calls > mock_ui.media_changed_calls
       /\ mock_ui'.last_old_status > MEDIA_BOOT
       /\ mock_ui'.last_new_status < mock_ui'.last_old_status)
        => /\ mock_ui.media_changed_calls >= 1
           /\ mock_ui.last_new_status > INSERT_NONE ]_vars


====
